---- MODULE Spec2Model ----
(***************************************************************************)
(* A model of the 3D tic-tac-toe board (src/board.go) and of the           *)
(* sequential minimax drivers that search it.  A Board value is a record   *)
(* with the fields of the Go struct; Move, UnMove, DeltaEvaluate,          *)
(* Evaluate, GetValidMoves and parseMove are operators computed as the Go  *)
(* code computes them.  Bytes are their ASCII codes, a move string is the  *)
(* sequence of its bytes.                                                   *)
(***************************************************************************)
EXTENDS Integers, Sequences, FiniteSets, TLC

VARIABLES
    board,   \* the Board value the callers share
    call,    \* the last logged call: <<operation, move string>>
    ret,     \* the [3]int the last logged call returned
    hist,    \* the accepted moves not yet undone, oldest first
    search,  \* the parallel or streaming search in flight, NoSearch when none
    tree     \* the persistent bot and its search tree, NoTree when none

vars == <<board, call, ret, hist, search, tree>>

-----------------------------------------------------------------------------
(* Bytes and strings                                                       *)

\* the cell and player bytes 'x', 'o' and the empty marker '|'
X == "x"
O == "o"
EMPTY == "|"

Players == {X, O}

\* ASCII codes of 'A', '0' and '9'
chA == 65
ch0 == 48
ch9 == 57

\* [3]int{-1, -1, -1}
Invalid == <<-1, -1, -1>>

\* the value of ret before any call has returned
NoCall == <<>>

\* no goroutine of a parallel search exists; no persistent bot exists
NoSearch == <<>>
NoTree == <<>>

\* base of the exponential scoring, fixed by NewBoard
Base == 10

\* the value a call returned, S being the set of that one value: the result
\* is computed once and named, as an assignment does
Only(S) == CHOOSE v \in S : TRUE

RECURSIVE Pow(_, _)
\* int(math.Pow(float64(base), float64(n))), exact for the small n used
Pow(b, n) == IF n = 0 THEN 1 ELSE b * Pow(b, n - 1)

-----------------------------------------------------------------------------
(* Board construction                                                      *)

\* argument lists passed to NewBoard(dimensions ...int)
Dimensions == { <<2>>, <<2, 2, 1, 2>>, <<3, 1, 2, 2>>, <<1, 3, 1, 2>>, <<1, 1, 3, 2>> }

NewBoard(dimensions) ==
    LET n == Len(dimensions)
        length == IF n >= 1 THEN dimensions[1] ELSE 4
        width == IF n >= 4 THEN dimensions[2] ELSE IF n >= 1 THEN dimensions[1] ELSE 4
        height == IF n >= 4 THEN dimensions[3] ELSE IF n >= 1 THEN dimensions[1] ELSE 4
        winLength == IF n >= 4 THEN dimensions[4] ELSE IF n >= 1 THEN dimensions[1] ELSE 4
    IN  [ Length |-> length,
          Width |-> width,
          Height |-> height,
          WinLength |-> winLength,
          Grid |-> [i \in 0..(length - 1) |-> [j \in 0..(width - 1) |-> [k \in 0..(height - 1) |-> EMPTY]]],
          CurrentHeights |-> [i \in 0..(length - 1) |-> [j \in 0..(width - 1) |-> 0]],
          LastMove |-> Invalid,
          Score |-> 0,
          PlayerWin |-> EMPTY ]

-----------------------------------------------------------------------------
(* parseMove                                                               *)

RECURSIVE parseRow(_, _, _)
\* the digit loop of parseMove: -1 stands for the early return (-1, -1)
parseRow(moveStr, i, row) ==
    IF i > Len(moveStr) THEN row
    ELSE IF moveStr[i] < ch0 \/ moveStr[i] > ch9 THEN -1
    ELSE parseRow(moveStr, i + 1, row * 10 + (moveStr[i] - ch0))

\* parseMove without the conversion of the row to 0-based indexing
parseMoveOneBased(moveStr) ==
    IF Len(moveStr) < 2 THEN <<-1, -1>>
    ELSE LET col == moveStr[1] - chA
             row == parseRow(moveStr, 2, 0)
         IN  IF row = -1 THEN <<-1, -1>> ELSE <<col, row>>

\* parseMove(moveStr) = <<col, row>>, or <<-1, -1>> for an invalid string
parseMove(moveStr) ==
    IF Len(moveStr) < 2 THEN <<-1, -1>>
    ELSE LET col == moveStr[1] - chA
             row == parseRow(moveStr, 2, 0)
         IN  IF row = -1 THEN <<-1, -1>> ELSE <<col, row - 1>>

-----------------------------------------------------------------------------
(* Lines                                                                   *)

\* the 13 direction vectors, in the order of the Go literal
directions ==
    << <<1, 0, 0>>, <<0, 1, 0>>, <<0, 0, 1>>,
       <<1, 1, 0>>, <<1, -1, 0>>, <<1, 0, 1>>, <<1, 0, -1>>, <<0, 1, 1>>, <<0, 1, -1>>,
       <<1, 1, 1>>, <<1, -1, -1>>, <<1, 1, -1>>, <<1, -1, 1>> >>

IsValidCoordinate(b, x, y, z) ==
    x >= 0 /\ x < b.Length /\ y >= 0 /\ y < b.Width /\ z >= 0 /\ z < b.Height

\* GetLine: the WinLength cells from start along direction, or a line of
\* empty markers when one of them is off the board
GetLine(b, start, direction) ==
    LET cell(i) == <<start[1] + i * direction[1], start[2] + i * direction[2], start[3] + i * direction[3]>>
        inside == \A i \in 0..(b.WinLength - 1) : IsValidCoordinate(b, cell(i)[1], cell(i)[2], cell(i)[3])
    IN  [i \in 1..b.WinLength |->
            IF inside THEN b.Grid[cell(i - 1)[1]][cell(i - 1)[2]][cell(i - 1)[3]] ELSE EMPTY]

countBytes(bytes, target) == Cardinality({i \in DOMAIN bytes : bytes[i] = target})

\* the contribution of one segment with the given counts
lineScore(b, xCount, oCount) ==
    IF xCount > 0 /\ oCount = 0 /\ xCount <= b.WinLength THEN Pow(Base, xCount)
    ELSE IF oCount > 0 /\ xCount = 0 /\ oCount <= b.WinLength THEN -Pow(Base, oCount)
    ELSE 0

-----------------------------------------------------------------------------
(* Evaluation                                                              *)

RECURSIVE sumRange(_, _, _)
\* s[lo] + ... + s[hi]: the running `score +=` and `delta +=` of the loops
sumRange(s, lo, hi) ==
    IF lo > hi THEN 0
    ELSE IF lo = hi THEN s[lo]
    ELSE sumRange(s, lo, (lo + hi) \div 2) + sumRange(s, ((lo + hi) \div 2) + 1, hi)

\* one pass of the innermost loop of Evaluate; n counts the iterations of
\* the four nested loops (i, j, k, dir), and a skipped segment adds 0
evaluateAt(b, n) ==
    LET dir == directions[(n % 13) + 1]
        c == n \div 13
        k == c % b.Height
        j == (c \div b.Height) % b.Width
        i == c \div (b.Height * b.Width)
        w == b.WinLength - 1
    IN  IF ~IsValidCoordinate(b, i + w * dir[1], j + w * dir[2], k + w * dir[3])
        THEN 0
        ELSE LET line == GetLine(b, <<i, j, k>>, dir)
             IN  lineScore(b, countBytes(line, X), countBytes(line, O))

\* Evaluate: the full board evaluation score
Evaluate(b) ==
    LET N == b.Length * b.Width * b.Height * 13
        scores == [n \in 1..N |-> evaluateAt(b, n - 1)]
    IN  sumRange(scores, 1, N)

\* the counts <<xCountAfter, oCountAfter>> of the segment the n-th pass of
\* the DeltaEvaluate loops (dir, offset) looks at, <<>> when it is skipped
segmentAt(b, x, y, z, n) ==
    LET dir == directions[(n \div b.WinLength) + 1]
        offset == (n % b.WinLength) - (b.WinLength - 1)
        w == b.WinLength - 1
        startX == x + offset * dir[1]
        startY == y + offset * dir[2]
        startZ == z + offset * dir[3]
        endX == startX + w * dir[1]
        endY == startY + w * dir[2]
        endZ == startZ + w * dir[3]
    IN  IF ~IsValidCoordinate(b, startX, startY, startZ) \/ ~IsValidCoordinate(b, endX, endY, endZ)
        THEN <<>>
        ELSE LET lineAfter == GetLine(b, <<startX, startY, startZ>>, dir)
             IN  <<countBytes(lineAfter, X), countBytes(lineAfter, O)>>

\* segmentWin with the second branch assigning 'x' as the first does
segmentWinAlwaysX(b, updateWin, counts) ==
    IF counts = <<>> THEN EMPTY
    ELSE IF updateWin /\ counts[1] = b.WinLength /\ counts[2] = 0 THEN X
    ELSE IF updateWin /\ counts[2] = b.WinLength /\ counts[1] = 0 THEN X
    ELSE EMPTY

\* what one segment of the scan does to PlayerWin: the new winner, or EMPTY
\* when it leaves the field alone
segmentWin(b, updateWin, counts) ==
    IF counts = <<>> THEN EMPTY
    ELSE IF updateWin /\ counts[1] = b.WinLength /\ counts[2] = 0 THEN X
    ELSE IF updateWin /\ counts[2] = b.WinLength /\ counts[1] = 0 THEN O
    ELSE EMPTY

\* countsBefore with the 'o' branch not subtracting the placed piece
countsBeforeKeepsO(symbol, xCountAfter, oCountAfter) ==
    IF symbol = X THEN <<xCountAfter - 1, oCountAfter>>
    ELSE IF symbol = O THEN <<xCountAfter, oCountAfter>>
    ELSE <<>>

\* the counts of a segment before the piece with this symbol was placed;
\* <<>> stands for the `continue` taken on any other symbol
countsBefore(symbol, xCountAfter, oCountAfter) ==
    IF symbol = X THEN <<xCountAfter - 1, oCountAfter>>
    ELSE IF symbol = O THEN <<xCountAfter, oCountAfter - 1>>
    ELSE <<>>

\* scoreAfter - scoreBefore of one segment of the scan
segmentDelta(b, symbol, counts) ==
    IF counts = <<>> THEN 0
    ELSE LET before == countsBefore(symbol, counts[1], counts[2])
         IN  IF before = <<>> THEN 0
             ELSE lineScore(b, counts[1], counts[2]) - lineScore(b, before[1], before[2])

RECURSIVE lastWin(_, _, _)
\* PlayerWin after the whole scan: the last assignment made to it
lastWin(wins, n, win) ==
    IF n = 0 THEN win
    ELSE IF wins[n] # EMPTY THEN wins[n]
    ELSE lastWin(wins, n - 1, win)

\* DeltaEvaluate: [delta |-> the score change, PlayerWin |-> the winner
\* flag the scan leaves in the board]
DeltaEvaluate(b, x, y, z, updateWin) ==
    LET N == 13 * b.WinLength
        counts == [n \in 1..N |-> segmentAt(b, x, y, z, n - 1)]
        deltas == [n \in 1..N |-> segmentDelta(b, b.Grid[x][y][z], counts[n])]
        wins == [n \in 1..N |-> segmentWin(b, updateWin, counts[n])]
    IN  [delta |-> sumRange(deltas, 1, N), PlayerWin |-> lastWin(wins, N, b.PlayerWin)]

-----------------------------------------------------------------------------
(* Move and UnMove                                                         *)

\* reject returning the stored last move instead of the sentinel
rejectReturnsLastMove(b) == [b |-> b, ret |-> b.LastMove]

\* a rejected call: the board is left alone and the sentinel is returned
reject(b) == [b |-> b, ret |-> Invalid]

\* Move, up to the call of DeltaEvaluate: the piece is placed
placePiece(b, col, row, currentHeight, player) ==
    [b EXCEPT !.Grid[col][row][currentHeight] = player,
              !.CurrentHeights[col][row] = @ + 1,
              !.LastMove = <<col, row, currentHeight>>]

\* Move: [b |-> the board after the call, ret |-> the returned [3]int]
Move(b, moveStr, player) ==
    LET pm == parseMove(moveStr)
        col == pm[1]
        row == pm[2]
    IN  IF col < 0 \/ col >= b.Length \/ row < 0 \/ row >= b.Width
        THEN reject(b)
        ELSE LET currentHeight == b.CurrentHeights[col][row]
             IN  IF currentHeight >= b.Height
                 THEN reject(b)
                 ELSE Only({ Only({ [b |-> [placed EXCEPT !.PlayerWin = d.PlayerWin,
                                                          !.Score = @ + d.delta],
                                     ret |-> placed.LastMove]
                                    : d \in {DeltaEvaluate(placed, col, row, currentHeight, TRUE)} })
                             : placed \in {placePiece(b, col, row, currentHeight, player)} })

\* removePiece without the decrement of the column height
removePieceKeepsHeight(b, col, row, topHeight, delta) ==
    [b EXCEPT !.Grid[col][row][topHeight] = EMPTY,
              !.Score = @ - delta,
              !.PlayerWin = EMPTY]

\* removePiece without the reset of the win status
removePieceKeepsWin(b, col, row, topHeight, delta) ==
    [b EXCEPT !.Grid[col][row][topHeight] = EMPTY,
              !.CurrentHeights[col][row] = @ - 1,
              !.Score = @ - delta]

\* removePiece adding the delta instead of reversing it
removePieceAddsDelta(b, col, row, topHeight, delta) ==
    [b EXCEPT !.Grid[col][row][topHeight] = EMPTY,
              !.CurrentHeights[col][row] = @ - 1,
              !.Score = @ + delta,
              !.PlayerWin = EMPTY]

\* removePiece leaving the piece in the grid
removePieceKeepsCell(b, col, row, topHeight, delta) ==
    [b EXCEPT !.CurrentHeights[col][row] = @ - 1,
              !.Score = @ - delta,
              !.PlayerWin = EMPTY]

\* UnMove, after the call of DeltaEvaluate: the piece is removed, the score
\* delta reversed and the win status reset
removePiece(b, col, row, topHeight, delta) ==
    [b EXCEPT !.Grid[col][row][topHeight] = EMPTY,
              !.CurrentHeights[col][row] = @ - 1,
              !.Score = @ - delta,
              !.PlayerWin = EMPTY]

\* UnMove: [b |-> the board after the call, ret |-> the returned [3]int]
UnMove(b, moveStr) ==
    LET pm == parseMove(moveStr)
        col == pm[1]
        row == pm[2]
    IN  IF col < 0 \/ col >= b.Length \/ row < 0 \/ row >= b.Width
        THEN reject(b)
        ELSE LET currentHeight == b.CurrentHeights[col][row]
             IN  IF currentHeight <= 0
                 THEN reject(b)
                 ELSE LET topHeight == currentHeight - 1
                      IN  Only({ [b |-> removePiece(b, col, row, topHeight, d.delta),
                                  ret |-> <<col, row, topHeight>>]
                                 : d \in {DeltaEvaluate(b, col, row, topHeight, FALSE)} })

CheckWin(b) == b.PlayerWin

-----------------------------------------------------------------------------
(* Valid moves                                                             *)

RECURSIVE decimal(_)
\* the %d verb: the decimal digits of n >= 0, most significant first
decimal(n) == IF n < 10 THEN <<ch0 + n>> ELSE decimal(n \div 10) \o <<ch0 + (n % 10)>>

\* moveString printing the zero-based row
moveStringZeroBased(i, j) == <<(chA + i) % 256>> \o decimal(j)

\* fmt.Sprintf("%c%d", 'A'+byte(i), j+1)
moveString(i, j) == <<(chA + i) % 256>> \o decimal(j + 1)

RECURSIVE validMovesLoop(_, _, _)
\* the two nested loops of GetValidMoves, flattened: n counts (i, j)
validMovesLoop(b, n, validMoves) ==
    IF n >= b.Length * b.Width THEN validMoves
    ELSE LET i == n \div b.Width
             j == n % b.Width
         IN  IF b.CurrentHeights[i][j] < b.Height
             THEN validMovesLoop(b, n + 1, Append(validMoves, moveString(i, j)))
             ELSE validMovesLoop(b, n + 1, validMoves)

GetValidMoves(b) == validMovesLoop(b, 0, <<>>)

IsFull(b) == Len(GetValidMoves(b)) = 0

-----------------------------------------------------------------------------
(* The board API as a state machine                                        *)

\* the most pieces the callers put on a board
MaxPieces == 5

RECURSIVE piecesLoop(_, _)
piecesLoop(b, n) ==
    IF n >= b.Length * b.Width THEN 0
    ELSE b.CurrentHeights[n \div b.Width][n % b.Width] + piecesLoop(b, n + 1)

\* the number of pieces on the board
Pieces(b) == piecesLoop(b, 0)

\* the move strings the callers pass: A1 A2 A3 B1 B2 C1, then A0 D1 A1x
MoveStrings ==
    { <<65, 49>>, <<65, 50>>, <<65, 51>>, <<66, 49>>, <<66, 50>>, <<67, 49>>,
      <<65, 48>>, <<68, 49>>, <<65, 49, 120>> }

Init ==
    /\ \E dimensions \in Dimensions : board = NewBoard(dimensions)
    /\ call = <<>>
    /\ ret = NoCall
    /\ hist = <<>>
    /\ search = NoSearch
    /\ tree = NoTree

\* a caller calls board.Move(moveStr, player)
MoveCall ==
    \E moveStr \in MoveStrings, player \in Players :
        /\ Pieces(board) < MaxPieces \/ Move(board, moveStr, player).ret = Invalid
        /\ board' = Move(board, moveStr, player).b
        /\ UNCHANGED <<call, ret, hist, search, tree>>

\* a caller calls board.UnMove(moveStr)
UnMoveCall ==
    \E moveStr \in MoveStrings :
        /\ board' = UnMove(board, moveStr).b
        /\ UNCHANGED <<call, ret, hist, search, tree>>

Next == MoveCall \/ UnMoveCall

Spec == Init /\ [][Next]_vars

\* the boards reached by Move alone
NextMoveOnly == MoveCall

SpecMoveOnly == Init /\ [][NextMoveOnly]_vars

-----------------------------------------------------------------------------
(* Moves undone in reverse order                                           *)

\* the most moves pending on the undo stack
MaxHist == 3

\* an accepted Move, remembered for its UnMove
PushMove ==
    \E moveStr \in MoveStrings, player \in Players :
        /\ Len(hist) < MaxHist
        /\ Move(board, moveStr, player).ret # Invalid
        /\ board' = Move(board, moveStr, player).b
        /\ hist' = Append(hist, moveStr)
        /\ UNCHANGED <<call, ret, search, tree>>

\* the UnMove of the most recent move not yet undone
PopUnMove ==
    /\ hist # <<>>
    /\ board' = UnMove(board, hist[Len(hist)]).b
    /\ hist' = SubSeq(hist, 1, Len(hist) - 1)
    /\ UNCHANGED <<call, ret, search, tree>>

NextLIFO == PushMove \/ PopUnMove

SpecLIFO == Init /\ [][NextLIFO]_vars

-----------------------------------------------------------------------------
(* Calls with their arguments and results logged                           *)

\* the boards the logged calls are made on
CallDimensions == { <<2, 1, 2, 2>>, <<1, 2, 2, 2>> }

\* MoveStrings and more spellings: A01 A02 A10 A "" a1 @1 1A A-1
CallStrings ==
    MoveStrings \cup
    { <<65, 48, 49>>, <<65, 48, 50>>, <<65, 49, 48>>, <<65>>, <<>>, <<97, 49>>, <<64, 49>>,
      <<49, 65>>, <<65, 45, 49>> }

InitCalls ==
    /\ \E dimensions \in CallDimensions : board = NewBoard(dimensions)
    /\ call = <<>>
    /\ ret = NoCall
    /\ hist = <<>>
    /\ search = NoSearch
    /\ tree = NoTree

LoggedMove ==
    \E moveStr \in CallStrings, player \in Players :
        \E r \in {Move(board, moveStr, player)} :
            /\ board' = r.b
            /\ ret' = r.ret
            /\ call' = <<"Move", moveStr>>
            /\ UNCHANGED <<hist, search, tree>>

LoggedUnMove ==
    \E moveStr \in CallStrings :
        \E r \in {UnMove(board, moveStr)} :
            /\ board' = r.b
            /\ ret' = r.ret
            /\ call' = <<"UnMove", moveStr>>
            /\ UNCHANGED <<hist, search, tree>>

NextCalls == LoggedMove \/ LoggedUnMove

SpecCalls == InitCalls /\ [][NextCalls]_vars

-----------------------------------------------------------------------------
(* The sequential search drivers                                           *)

\* MAX_INT and MIN_INT of constants.go on a build whose int has 32 bits
MAX_INT == 2147483647
MIN_INT == -MAX_INT - 1

\* Go's integer division, which truncates toward zero (b > 0)
goDiv(a, b) == IF a >= 0 \/ a % b = 0 THEN a \div b ELSE (a \div b) + 1

\* copyBoard: a new board of the same dimensions with every field copied
copyBoard(original) ==
    [NewBoard(<<original.Length, original.Width, original.Height, original.WinLength, Base>>)
        EXCEPT !.Grid = original.Grid,
               !.CurrentHeights = original.CurrentHeights,
               !.LastMove = original.LastMove,
               !.Score = original.Score,
               !.PlayerWin = original.PlayerWin]

\* the symbol a node plays and the initial value of its best score
nodeSymbol(isMaximizing) == IF isMaximizing THEN X ELSE O
initialScore(isMaximizing) == IF isMaximizing THEN MIN_INT ELSE MAX_INT

\* the score of a board whose winner is set
winScore(winner) == IF winner = X THEN goDiv(MAX_INT, 2) ELSE goDiv(MIN_INT, 2)

RECURSIVE naiveMinimax(_, _, _)
RECURSIVE naiveLoop(_, _, _, _, _, _, _)

\* the loop of naiveMinimax over the valid moves, from the k-th on
naiveLoop(b, depth, isMaximizing, moves, k, bestScore, bestMoves) ==
    IF k > Len(moves) THEN [score |-> bestScore, moves |-> bestMoves]
    ELSE LET testBoard == Move(copyBoard(b), moves[k], nodeSymbol(isMaximizing)).b
             r == naiveMinimax(testBoard, depth - 1, ~isMaximizing)
         IN  IF (isMaximizing /\ r.score > bestScore) \/ (~isMaximizing /\ r.score < bestScore)
             THEN naiveLoop(b, depth, isMaximizing, moves, k + 1, r.score, <<moves[k]>> \o r.moves)
             ELSE naiveLoop(b, depth, isMaximizing, moves, k + 1, bestScore, bestMoves)

\* naiveMinimax: [score |-> the score, moves |-> the best moves]
naiveMinimax(b, depth, isMaximizing) ==
    IF CheckWin(b) # EMPTY THEN [score |-> winScore(CheckWin(b)), moves |-> <<>>]
    ELSE IF depth = 0 THEN [score |-> Evaluate(b), moves |-> <<>>]
    ELSE naiveLoop(b, depth, isMaximizing, GetValidMoves(b), 1, initialScore(isMaximizing), <<>>)

RECURSIVE minimax(_, _, _)
RECURSIVE minimaxLoop(_, _, _, _, _, _, _)

\* the loop of minimax over the valid moves, from the k-th on
minimaxLoop(b, depth, isMaximizing, moves, k, bestScore, bestMoves) ==
    IF k > Len(moves) THEN [score |-> bestScore, moves |-> bestMoves]
    ELSE LET testBoard == Move(copyBoard(b), moves[k], nodeSymbol(isMaximizing)).b
             r == minimax(testBoard, depth - 1, ~isMaximizing)
         IN  IF (isMaximizing /\ r.score > bestScore) \/ (~isMaximizing /\ r.score < bestScore)
             THEN minimaxLoop(b, depth, isMaximizing, moves, k + 1, r.score, <<moves[k]>> \o r.moves)
             ELSE minimaxLoop(b, depth, isMaximizing, moves, k + 1, bestScore, bestMoves)

\* minimax: [score |-> the score, moves |-> the best moves]
minimax(b, depth, isMaximizing) ==
    IF depth = 0 THEN [score |-> b.Score, moves |-> <<>>]
    ELSE minimaxLoop(b, depth, isMaximizing, GetValidMoves(b), 1, initialScore(isMaximizing), <<>>)

RECURSIVE alphaBetaMinimax(_, _, _, _)
RECURSIVE alphaBetaLoop(_, _, _, _, _, _, _, _)

\* a loop that breaks at a cutoff before it has taken its move back
alphaBetaLoopKeepsMove(b, depth, isMaximizing, threshold, moves, k, currentScore, bestMoves) ==
    IF k > Len(moves) THEN [score |-> currentScore, moves |-> bestMoves, b |-> b]
    ELSE Only({
        LET unmoved == UnMove(r.b, moves[k]).b
            better == IF isMaximizing THEN r.score > currentScore ELSE r.score < currentScore
            score == IF better THEN r.score ELSE currentScore
            best == IF better THEN <<moves[k]>> \o r.moves ELSE bestMoves
        IN  IF (isMaximizing /\ score >= threshold) \/ (~isMaximizing /\ score <= threshold)
            THEN [score |-> score, moves |-> best, b |-> r.b]
            ELSE alphaBetaLoop(unmoved, depth, isMaximizing, threshold, moves, k + 1, score, best)
        : r \in {alphaBetaMinimax(moved, depth - 1, ~isMaximizing, currentScore)
                  : moved \in {Move(b, moves[k], nodeSymbol(isMaximizing)).b}} })

\* a loop with the cutoff tests of the two kinds of node exchanged
alphaBetaLoopExchanged(b, depth, isMaximizing, threshold, moves, k, currentScore, bestMoves) ==
    IF k > Len(moves) THEN [score |-> currentScore, moves |-> bestMoves, b |-> b]
    ELSE Only({
        LET unmoved == UnMove(r.b, moves[k]).b
            better == IF isMaximizing THEN r.score > currentScore ELSE r.score < currentScore
            score == IF better THEN r.score ELSE currentScore
            best == IF better THEN <<moves[k]>> \o r.moves ELSE bestMoves
        IN  IF (isMaximizing /\ score <= threshold) \/ (~isMaximizing /\ score >= threshold)
            THEN [score |-> score, moves |-> best, b |-> unmoved]
            ELSE alphaBetaLoop(unmoved, depth, isMaximizing, threshold, moves, k + 1, score, best)
        : r \in {alphaBetaMinimax(moved, depth - 1, ~isMaximizing, currentScore)
                  : moved \in {Move(b, moves[k], nodeSymbol(isMaximizing)).b}} })

\* the loop of alphaBetaMinimax over the valid moves, from the k-th on; b is
\* the board the search moves and unmoves on
alphaBetaLoop(b, depth, isMaximizing, threshold, moves, k, currentScore, bestMoves) ==
    IF k > Len(moves) THEN [score |-> currentScore, moves |-> bestMoves, b |-> b]
    ELSE Only({
        LET unmoved == UnMove(r.b, moves[k]).b
            better == IF isMaximizing THEN r.score > currentScore ELSE r.score < currentScore
            score == IF better THEN r.score ELSE currentScore
            best == IF better THEN <<moves[k]>> \o r.moves ELSE bestMoves
        IN  IF (isMaximizing /\ score >= threshold) \/ (~isMaximizing /\ score <= threshold)
            THEN [score |-> score, moves |-> best, b |-> unmoved]
            ELSE alphaBetaLoop(unmoved, depth, isMaximizing, threshold, moves, k + 1, score, best)
        : r \in {alphaBetaMinimax(moved, depth - 1, ~isMaximizing, currentScore)
                  : moved \in {Move(b, moves[k], nodeSymbol(isMaximizing)).b}} })

\* alphaBetaMinimax: [score |-> the score, moves |-> the best moves,
\* b |-> the board as the search leaves it]
alphaBetaMinimax(b, depth, isMaximizing, threshold) ==
    IF CheckWin(b) # EMPTY THEN [score |-> winScore(CheckWin(b)), moves |-> <<>>, b |-> b]
    ELSE IF depth = 0 THEN [score |-> b.Score, moves |-> <<>>, b |-> b]
    ELSE alphaBetaLoop(b, depth, isMaximizing, threshold, GetValidMoves(b), 1,
                       initialScore(isMaximizing), <<>>)

\* the threshold AlphaBetaMinimaxBot.MakeMove passes for the root
rootThreshold(isMaximizing) == IF isMaximizing THEN MIN_INT ELSE MAX_INT

\* the deepest search a bot is configured with
MaxDepth == 2

\* the boards the bots play on
BotDimensions == { <<2, 2, 1, 2>>, <<1, 1, 3, 2>>, <<3, 1, 1, 2>> }

InitBots ==
    /\ \E dimensions \in BotDimensions : board = NewBoard(dimensions)
    /\ call = <<>>
    /\ ret = NoCall
    /\ hist = <<>>
    /\ search = NoSearch
    /\ tree = NoTree

\* the end of every MakeMove: no best move, or the best move is played
playBest(bot, b, bestMoves, symbol) ==
    IF Len(bestMoves) = 0
    THEN /\ board' = b
         /\ call' = <<bot, <<>>>>
         /\ ret' = Invalid
    ELSE \E r \in {Move(b, bestMoves[1], symbol)} :
         /\ board' = r.b
         /\ call' = <<bot, bestMoves[1]>>
         /\ ret' = r.ret

\* the game loop reads a move of the human player, who plays x, while no
\* one has won
PlayMove ==
    /\ CheckWin(board) = EMPTY
    /\ \E k \in 1..Len(GetValidMoves(board)) :
        \E r \in {Move(board, GetValidMoves(board)[k], X)} :
            /\ board' = r.b
            /\ call' = <<"Move", GetValidMoves(board)[k]>>
            /\ ret' = r.ret
            /\ UNCHANGED <<hist, search, tree>>

\* the game loop asks a bot for its move while no one has won and the board
\* is not full
NaiveMakeMove ==
    /\ CheckWin(board) = EMPTY /\ ~IsFull(board)
    /\ \E symbol \in Players, depth \in 0..MaxDepth :
        /\ playBest("NaiveMinimaxBot", board, naiveMinimax(board, depth, symbol = X).moves, symbol)
        /\ UNCHANGED <<hist, search, tree>>

MinimaxMakeMove ==
    /\ CheckWin(board) = EMPTY /\ ~IsFull(board)
    /\ \E symbol \in Players, depth \in 0..MaxDepth :
        /\ playBest("MinimaxBot", board, minimax(board, depth, symbol = X).moves, symbol)
        /\ UNCHANGED <<hist, search, tree>>

AlphaBetaMakeMove ==
    /\ CheckWin(board) = EMPTY /\ ~IsFull(board)
    /\ \E symbol \in Players, depth \in 0..MaxDepth :
        \E r \in {alphaBetaMinimax(board, depth, symbol = X, rootThreshold(symbol = X))} :
            /\ playBest("AlphaBetaMinimaxBot", r.b, r.moves, symbol)
            /\ UNCHANGED <<hist, search, tree>>

NextBots == PlayMove \/ NaiveMakeMove \/ MinimaxMakeMove \/ AlphaBetaMakeMove

SpecBots == InitBots /\ [][NextBots]_vars

-----------------------------------------------------------------------------
(* What the properties speak of                                            *)

Columns(b) == (0..(b.Length - 1)) \X (0..(b.Width - 1))

\* a fresh line scan: some in-bounds segment of WinLength cells along one of
\* the 13 directions holds only p
HasLine(b, p) ==
    \E i \in 0..(b.Length - 1), j \in 0..(b.Width - 1), k \in 0..(b.Height - 1), d \in 1..13 :
        \A n \in 0..(b.WinLength - 1) :
            LET x == i + n * directions[d][1]
                y == j + n * directions[d][2]
                z == k + n * directions[d][3]
            IN  /\ x \in 0..(b.Length - 1)
                /\ y \in 0..(b.Width - 1)
                /\ z \in 0..(b.Height - 1)
                /\ b.Grid[x][y][z] = p

\* the cell LastMove names is empty again: an UnMove has been accepted
LastMoveUndone(b) ==
    /\ b.LastMove # Invalid
    /\ b.Grid[b.LastMove[1]][b.LastMove[2]][b.LastMove[3]] = EMPTY

\* the strings of MoveStrings that Move accepts on b
LegalMoves(b) == {m \in MoveStrings : Move(b, m, X).ret # Invalid}

-----------------------------------------------------------------------------
(* C1: after any sequence of Move and UnMove calls the cached Score equals *)
(* the full recomputation Evaluate gives for the grid.                     *)
ScoreIsEvaluate == board.Score = Evaluate(board)

\* a board with pieces of both players and a non-zero score after an UnMove
ScoreAfterUnMove ==
    /\ LastMoveUndone(board)
    /\ board.Score # 0
    /\ Pieces(board) >= 3
    /\ \E c \in Columns(board) : board.Grid[c[1]][c[2]][0] = O

(* C2: every column height is in [0, Height], counts the non-empty cells   *)
(* of its column, and the occupied cells are exactly those below it.       *)
HeightsMatchGrid ==
    \A c \in Columns(board) :
        LET h == board.CurrentHeights[c[1]][c[2]]
        IN  /\ h \in 0..board.Height
            /\ h = Cardinality({z \in 0..(board.Height - 1) : board.Grid[c[1]][c[2]][z] # EMPTY})
            /\ \A z \in 0..(board.Height - 1) : (board.Grid[c[1]][c[2]][z] # EMPTY) <=> (z < h)

\* a full column next to a column emptied by UnMove
FullAndEmptiedColumns ==
    /\ LastMoveUndone(board)
    /\ board.CurrentHeights[board.LastMove[1]][board.LastMove[2]] = 0
    /\ \E c \in Columns(board) : board.CurrentHeights[c[1]][c[2]] = board.Height

(* C3 as stated: on a board reached by Move alone PlayerWin is 'x' exactly *)
(* when some segment holds only 'x', 'o' exactly when some segment holds   *)
(* only 'o', and '|' otherwise.                                            *)
WinnerIsLineScan ==
    /\ (board.PlayerWin = X) <=> HasLine(board, X)
    /\ (board.PlayerWin = O) <=> HasLine(board, O)
    /\ (board.PlayerWin = EMPTY) <=> (~HasLine(board, X) /\ ~HasLine(board, O))

(* C3 amended: on a board reached by Move alone PlayerWin is '|' exactly   *)
(* when no segment is full of one player; a set PlayerWin names a player   *)
(* who has a full segment, and when only one player has one it is that     *)
(* player.                                                                  *)
WinnerHasLine ==
    /\ (board.PlayerWin = EMPTY) <=> (~HasLine(board, X) /\ ~HasLine(board, O))
    /\ board.PlayerWin = X => HasLine(board, X)
    /\ board.PlayerWin = O => HasLine(board, O)
    /\ (HasLine(board, X) /\ ~HasLine(board, O)) => board.PlayerWin = X
    /\ (HasLine(board, O) /\ ~HasLine(board, X)) => board.PlayerWin = O

\* both players have a full segment, 'o' completed the later one
BothLinesOWins ==
    /\ HasLine(board, X)
    /\ HasLine(board, O)
    /\ board.PlayerWin = O

(* C4 as stated: once PlayerWin is 'x' or 'o' only an accepted UnMove      *)
(* changes it, to '|'.                                                     *)
WinnerSticky ==
    [][(board.PlayerWin # EMPTY /\ board'.PlayerWin # board.PlayerWin)
          => (Pieces(board') < Pieces(board) /\ board'.PlayerWin = EMPTY)]_vars

\* some in-bounds segment of WinLength cells through the cell LastMove names
\* holds only the piece of that cell
LastMoveCompletesLine(b) ==
    \E d \in 1..13, offset \in 0..(b.WinLength - 1) :
        \A n \in 0..(b.WinLength - 1) :
            LET x == b.LastMove[1] + (n - offset) * directions[d][1]
                y == b.LastMove[2] + (n - offset) * directions[d][2]
                z == b.LastMove[3] + (n - offset) * directions[d][3]
            IN  /\ x \in 0..(b.Length - 1)
                /\ y \in 0..(b.Width - 1)
                /\ z \in 0..(b.Height - 1)
                /\ b.Grid[x][y][z] = b.Grid[b.LastMove[1]][b.LastMove[2]][b.LastMove[3]]

(* C4 amended: a Move sets PlayerWin to the player who moved when the      *)
(* piece it places completes a segment, whatever PlayerWin was, and leaves *)
(* it otherwise; an accepted UnMove sets it to '|'.                        *)
WinnerChanges ==
    [][/\ Pieces(board') > Pieces(board) =>
            board'.PlayerWin =
                IF LastMoveCompletesLine(board')
                THEN board'.Grid[board'.LastMove[1]][board'.LastMove[2]][board'.LastMove[3]]
                ELSE board.PlayerWin
       /\ Pieces(board') < Pieces(board) => board'.PlayerWin = EMPTY
       /\ Pieces(board') = Pieces(board) => board'.PlayerWin = board.PlayerWin]_vars

\* both players have a full segment, 'x' completed the later one
BothLinesXWins ==
    /\ HasLine(board, X)
    /\ HasLine(board, O)
    /\ board.PlayerWin = X
    /\ board.Grid[board.LastMove[1]][board.LastMove[2]][board.LastMove[3]] = X

(* C5 as stated: Move(m, p) followed by UnMove(m) leaves every field of    *)
(* the board as it was.                                                    *)
RoundTripIdentity ==
    \A m \in LegalMoves(board), p \in Players :
        UnMove(Move(board, m, p).b, m).b = board

(* C5 amended: Move(m, p) followed by UnMove(m) restores Grid,             *)
(* CurrentHeights and Score; PlayerWin is '|' afterwards and LastMove      *)
(* holds the coordinates of the undone move.                               *)
RoundTripRestores ==
    \A m \in LegalMoves(board), p \in Players :
        LET mv == Move(board, m, p)
            um == UnMove(mv.b, m)
        IN  /\ um.ret = mv.ret
            /\ um.b = [board EXCEPT !.PlayerWin = EMPTY, !.LastMove = mv.ret]
            /\ mv.ret = <<parseMove(m)[1], parseMove(m)[2],
                          board.CurrentHeights[parseMove(m)[1]][parseMove(m)[2]]>>

\* the board after a round trip made on a won board: the line is there,
\* the flag is reset and LastMove names the emptied cell
RoundTripOnWonBoard ==
    /\ LastMoveUndone(board)
    /\ HasLine(board, X)
    /\ board.PlayerWin = EMPTY
    /\ board.LastMove[3] = board.CurrentHeights[board.LastMove[1]][board.LastMove[2]]

(* C9: GetValidMoves lists, in column-major order, one move string for     *)
(* each column below Height and none for a full column; Move accepts each; *)
(* IsFull holds exactly when every column is full.                         *)
ValidMovesExact ==
    LET v == GetValidMoves(board)
        open == {c \in Columns(board) : board.CurrentHeights[c[1]][c[2]] < board.Height}
        rank(m) == parseMove(m)[1] * board.Width + parseMove(m)[2]
    IN  /\ Len(v) = Cardinality(open)
        /\ \A k \in 1..Len(v) :
              /\ parseMove(v[k]) \in open
              /\ v[k][1] = chA + parseMove(v[k])[1]
              /\ v[k][2] # ch0
              /\ \A p \in Players : Move(board, v[k], p).ret # Invalid
        /\ \A k \in 1..(Len(v) - 1) : rank(v[k]) < rank(v[k + 1])
        /\ IsFull(board) <=> (open = {})

\* some columns are full and at least two are not
SomeColumnsFull ==
    /\ \E c \in Columns(board) : board.CurrentHeights[c[1]][c[2]] = board.Height
    /\ Len(GetValidMoves(board)) >= 2

(* C6: after accepted moves undone in reverse order the board is the empty *)
(* board: Score 0, PlayerWin '|', every height 0, every cell empty.        *)
UndoneBoardIsEmpty ==
    hist = <<>> =>
        /\ board.Score = 0
        /\ board.PlayerWin = EMPTY
        /\ \A c \in Columns(board) :
              /\ board.CurrentHeights[c[1]][c[2]] = 0
              /\ \A z \in 0..(board.Height - 1) : board.Grid[c[1]][c[2]][z] = EMPTY

\* everything undone after a column had been stacked two high
StackUndone ==
    /\ hist = <<>>
    /\ board.LastMove # Invalid
    /\ board.LastMove[3] >= 1

-----------------------------------------------------------------------------
(* The move string grammar                                                 *)

RECURSIVE digitsValue(_, _)
\* the decimal value of the digits s[2..i]
digitsValue(s, i) == IF i < 2 THEN 0 ELSE 10 * digitsValue(s, i - 1) + (s[i] - ch0)

\* a letter whose offset is a column, then decimal digits whose value is a row
DigitsGrammar(s, b) ==
    /\ Len(s) >= 2
    /\ s[1] - chA \in 0..(b.Length - 1)
    /\ \A i \in 2..Len(s) : s[i] \in ch0..ch9
    /\ digitsValue(s, Len(s)) \in 1..b.Width

\* ^[A-Z][1-9][0-9]*$ with the letter a column and the number a row
StrictGrammar(s, b) ==
    /\ DigitsGrammar(s, b)
    /\ s[1] \in 65..90
    /\ s[2] # ch0

(* C7 as stated: Move and UnMove accept a string only if it matches        *)
(* ^[A-Z][1-9][0-9]*$ with the letter in [0, Length) and the number in     *)
(* [1, Width].                                                             *)
AcceptsOnlyStrictGrammar ==
    (call # <<>> /\ ret # Invalid) => StrictGrammar(call[2], board)

(* C7 amended: Move and UnMove accept a string only if it is a letter with *)
(* offset in [0, Length) followed by decimal digits, leading zeros         *)
(* allowed, whose value is in [1, Width]; every other string returns       *)
(* (-1,-1,-1) and leaves the board unchanged.                              *)
AcceptsOnlyDigitsGrammar ==
    [][~DigitsGrammar(call'[2], board) => (ret' = Invalid /\ board' = board)]_vars

\* a string with a non-digit suffix was rejected on a board with pieces
MalformedRejected ==
    /\ call # <<>>
    /\ call[2] = <<65, 49, 120>>
    /\ ret = Invalid
    /\ Pieces(board) >= 1

(* C8: Move on a full column, Move or UnMove on a column or row out of     *)
(* range, and UnMove on an empty column return (-1,-1,-1) and leave the    *)
(* board unchanged.                                                        *)
RejectionsLeaveBoard ==
    [][LET op == call'[1]
           s == call'[2]
           shaped == Len(s) >= 2 /\ \A i \in 2..Len(s) : s[i] \in ch0..ch9
           col == s[1] - chA
           row == digitsValue(s, Len(s)) - 1
           inRange == col \in 0..(board.Length - 1) /\ row \in 0..(board.Width - 1)
       IN  (shaped /\ ( \/ ~inRange
                        \/ op = "Move" /\ board.CurrentHeights[col][row] = board.Height
                        \/ op = "UnMove" /\ board.CurrentHeights[col][row] = 0 ))
               => (ret' = Invalid /\ board' = board)]_vars

\* a Move on a full column was rejected
FullColumnRejected ==
    /\ call # <<>>
    /\ call[1] = "Move"
    /\ call[2] = <<65, 49>>
    /\ board.CurrentHeights[0][0] = board.Height
    /\ ret = Invalid
    /\ board.LastMove # Invalid

-----------------------------------------------------------------------------
(* C10: for every reachable board and every depth the naive driver, the    *)
(* delta driver and the threshold driver called with the root threshold of *)
(* its MakeMove return the same root score.                                *)
DriversAgree ==
    \A depth \in 0..MaxDepth, isMaximizing \in BOOLEAN :
        LET naive == naiveMinimax(board, depth, isMaximizing).score
            delta == minimax(board, depth, isMaximizing).score
            threshold == alphaBetaMinimax(board, depth, isMaximizing, rootThreshold(isMaximizing)).score
        IN  naive = delta /\ naive = threshold

-----------------------------------------------------------------------------
(* The sequential paths of the parallel and streaming drivers, and MakeMove *)

\* a search forks workers only with more valid moves than this
SequentialMoves == 2

\* concurrentAlphaBetaMinimax and the streaming search fork only deeper than
\* this; concurrentMinimaxDeep only deeper than DeepSequentialDepth
SequentialDepth == 2
DeepSequentialDepth == 1

\* concurrentMinimaxDeep reaches its fork: no winner, depth left, more than
\* two valid moves and depth above one
deepForks(b, depth) ==
    /\ CheckWin(b) = EMPTY
    /\ depth # 0
    /\ Len(GetValidMoves(b)) > SequentialMoves
    /\ depth > DeepSequentialDepth

\* concurrentMinimaxDeep on the paths that return before the fork
concurrentMinimaxDeepSequential(b, depth, isMaximizing) ==
    IF CheckWin(b) # EMPTY THEN [score |-> winScore(CheckWin(b)), moves |-> <<>>]
    ELSE IF depth = 0 THEN [score |-> b.Score, moves |-> <<>>]
    ELSE IF Len(GetValidMoves(b)) = 0 THEN [score |-> b.Score, moves |-> <<>>]
    ELSE minimax(b, depth, isMaximizing)

\* concurrentAlphaBetaMinimax and concurrentAlphaBetaMinimaxStream reach their
\* fork: no winner, depth left, more than two valid moves and depth above two
alphaBetaForks(b, depth) ==
    /\ CheckWin(b) = EMPTY
    /\ depth # 0
    /\ Len(GetValidMoves(b)) > SequentialMoves
    /\ depth > SequentialDepth

\* concurrentAlphaBetaMinimax on the paths that return before the fork
concurrentAlphaBetaMinimaxSequential(b, depth, isMaximizing, threshold) ==
    IF CheckWin(b) # EMPTY THEN [score |-> winScore(CheckWin(b)), moves |-> <<>>, b |-> b]
    ELSE IF depth = 0 THEN [score |-> b.Score, moves |-> <<>>, b |-> b]
    ELSE IF Len(GetValidMoves(b)) = 0 THEN [score |-> b.Score, moves |-> <<>>, b |-> b]
    ELSE alphaBetaMinimax(b, depth, isMaximizing, threshold)

\* the one StreamResult concurrentAlphaBetaMinimaxStream sends on the paths
\* that return before the fork, and the board as it leaves it
streamSequential(b, depth, isMaximizing) ==
    IF CheckWin(b) # EMPTY
    THEN [Move |-> <<>>, Score |-> winScore(CheckWin(b)), Final |-> TRUE, b |-> b]
    ELSE IF depth = 0 \/ Len(GetValidMoves(b)) = 0
    THEN [Move |-> <<>>, Score |-> b.Score, Final |-> TRUE, b |-> b]
    ELSE Only({ [Move |-> IF Len(r.moves) > 0 THEN r.moves[1] ELSE <<>>,
                 Score |-> r.score, Final |-> TRUE, b |-> r.b]
                : r \in {alphaBetaMinimax(b, depth, isMaximizing, rootThreshold(isMaximizing))} })

\* a MakeMove that answers the last move's coordinates when it has no move
pickBestReturnsLastMove(b, bestMoves, symbol) ==
    IF Len(bestMoves) = 0
    THEN [move |-> <<>>, coords |-> b.LastMove, b |-> b]
    ELSE Only({ [move |-> bestMoves[1], coords |-> r.ret, b |-> r.b]
                : r \in {Move(b, bestMoves[1], symbol)} })

\* the end of MakeMove: the empty string and the sentinel, or the first of
\* the best moves played on the board
pickBest(b, bestMoves, symbol) ==
    IF Len(bestMoves) = 0
    THEN [move |-> <<>>, coords |-> Invalid, b |-> b]
    ELSE Only({ [move |-> bestMoves[1], coords |-> r.ret, b |-> r.b]
                : r \in {Move(b, bestMoves[1], symbol)} })

NaiveMinimaxBotMakeMove(b, symbol, depth) ==
    Only({ pickBest(b, r.moves, symbol) : r \in {naiveMinimax(b, depth, symbol = X)} })

MinimaxBotMakeMove(b, symbol, depth) ==
    Only({ pickBest(b, r.moves, symbol) : r \in {minimax(b, depth, symbol = X)} })

AlphaBetaMinimaxBotMakeMove(b, symbol, depth) ==
    Only({ pickBest(r.b, r.moves, symbol)
           : r \in {alphaBetaMinimax(b, depth, symbol = X, rootThreshold(symbol = X))} })

\* ConcurrentMinimaxDeepBot.MakeMove when concurrentMinimaxDeep does not fork
ConcurrentMinimaxDeepBotMakeMove(b, symbol, depth) ==
    IF Len(GetValidMoves(b)) = 0
    THEN [move |-> <<>>, coords |-> Invalid, b |-> b]
    ELSE Only({ pickBest(b, r.moves, symbol)
                : r \in {concurrentMinimaxDeepSequential(b, depth, symbol = X)} })

\* ConcurrentAlphaBetaMinimaxBot.MakeMove over concurrentAlphaBetaMinimax when
\* the search does not fork
ConcurrentAlphaBetaMinimaxBotMakeMove(b, symbol, depth) ==
    Only({ pickBest(r.b, r.moves, symbol)
           : r \in {concurrentAlphaBetaMinimaxSequential(b, depth, symbol = X,
                                                         rootThreshold(symbol = X))} })

\* ConcurrentAlphaBetaMinimaxBot.MakeMove over the stream when the search
\* does not fork: the one tuple read is final
StreamMakeMove(b, symbol, depth) ==
    Only({ pickBest(r.b, IF r.Move = <<>> THEN <<>> ELSE <<r.Move>>, symbol)
           : r \in {streamSequential(b, depth, symbol = X)} })

\* the drivers: naive, delta, threshold, deep-parallel, parallel threshold
\* and streaming
Bots ==
    { "NaiveMinimaxBot", "MinimaxBot", "AlphaBetaMinimaxBot", "ConcurrentMinimaxDeepBot",
      "ConcurrentAlphaBetaMinimaxBot", "StreamingAlphaBetaMinimaxBot" }

\* the search of the bot forks no worker on b at this depth
sequentialPath(bot, b, depth) ==
    CASE bot = "ConcurrentMinimaxDeepBot" -> ~deepForks(b, depth)
      [] bot \in {"ConcurrentAlphaBetaMinimaxBot", "StreamingAlphaBetaMinimaxBot"} ->
            ~alphaBetaForks(b, depth)
      [] OTHER -> TRUE

\* bot.MakeMove(b) of a bot with this symbol and depth
driverMakeMove(bot, b, symbol, depth) ==
    CASE bot = "NaiveMinimaxBot" -> NaiveMinimaxBotMakeMove(b, symbol, depth)
      [] bot = "MinimaxBot" -> MinimaxBotMakeMove(b, symbol, depth)
      [] bot = "AlphaBetaMinimaxBot" -> AlphaBetaMinimaxBotMakeMove(b, symbol, depth)
      [] bot = "ConcurrentMinimaxDeepBot" -> ConcurrentMinimaxDeepBotMakeMove(b, symbol, depth)
      [] bot = "ConcurrentAlphaBetaMinimaxBot" ->
            ConcurrentAlphaBetaMinimaxBotMakeMove(b, symbol, depth)
      [] OTHER -> StreamMakeMove(b, symbol, depth)

-----------------------------------------------------------------------------
(* Game positions: the players alternate, x first, until someone wins      *)

\* the boards the positions are played on
PositionDimensions == { <<4, 1, 1, 2>>, <<2, 2, 1, 2>>, <<2, 1, 2, 2>> }

\* the number of cells holding p
countPlayer(b, p) ==
    Cardinality({c \in Columns(b) \X (0..(b.Height - 1)) : b.Grid[c[1][1]][c[1][2]][c[2]] = p})

\* players[currentPlayer]: x moves first and the players alternate
sideToMove(b) == IF countPlayer(b, X) = countPlayer(b, O) THEN X ELSE O

InitPositions ==
    /\ \E dimensions \in PositionDimensions : board = NewBoard(dimensions)
    /\ call = <<>>
    /\ ret = NoCall
    /\ hist = <<>>
    /\ search = NoSearch
    /\ tree = NoTree

\* the player to move enters a valid move while no one has won
PvPMove ==
    /\ CheckWin(board) = EMPTY
    /\ \E k \in 1..Len(GetValidMoves(board)) :
        \E r \in {Move(board, GetValidMoves(board)[k], sideToMove(board))} :
            /\ board' = r.b
            /\ call' = <<"Move", GetValidMoves(board)[k]>>
            /\ ret' = r.ret
            /\ UNCHANGED <<hist, search, tree>>

\* a bot that plays the side to move is asked for its move while no one has
\* won, on a full board too
DriverMakeMove ==
    /\ CheckWin(board) = EMPTY
    /\ \E bot \in Bots, depth \in 0..MaxDepth :
        /\ sequentialPath(bot, board, depth)
        /\ \E r \in {driverMakeMove(bot, board, sideToMove(board), depth)} :
            /\ board' = r.b
            /\ call' = <<bot, r.move>>
            /\ ret' = r.coords
            /\ UNCHANGED <<hist, search, tree>>

NextPositions == PvPMove \/ DriverMakeMove

SpecPositions == InitPositions /\ [][NextPositions]_vars

\* the valid moves with which p completes a segment on b
WinningMoves(b, p) ==
    {m \in {GetValidMoves(b)[k] : k \in 1..Len(GetValidMoves(b))} : Move(b, m, p).b.PlayerWin = p}

-----------------------------------------------------------------------------
(* C11 as stated: on a board with no winner where the side to move can     *)
(* complete a segment at once, every driver searching at depth >= 2 for    *)
(* that side plays a move that completes one.                              *)
WinningMoveTaken ==
    \A bot \in Bots, depth \in 2..MaxDepth :
        ( /\ CheckWin(board) = EMPTY
          /\ WinningMoves(board, sideToMove(board)) # {}
          /\ sequentialPath(bot, board, depth) )
            => driverMakeMove(bot, board, sideToMove(board), depth).move
                  \in WinningMoves(board, sideToMove(board))

(* C12 as stated: on a board with no winner where x is to move and cannot  *)
(* win at once and o has exactly one playable cell that completes an o     *)
(* segment, every driver playing x at depth >= 2 plays that cell.          *)
BlockingMoveTaken ==
    \A bot \in Bots, depth \in 2..MaxDepth :
        ( /\ CheckWin(board) = EMPTY
          /\ sideToMove(board) = X
          /\ WinningMoves(board, X) = {}
          /\ Cardinality(WinningMoves(board, O)) = 1
          /\ sequentialPath(bot, board, depth) )
            => driverMakeMove(bot, board, X, depth).move \in WinningMoves(board, O)

(* C13: MakeMove of every driver on a board whose columns are all full     *)
(* returns the empty move string and (-1,-1,-1) and leaves the board       *)
(* unchanged.                                                              *)
FullBoardNoMove ==
    [][(IsFull(board) /\ call'[1] \in Bots)
          => (call'[2] = <<>> /\ ret' = Invalid /\ board' = board)]_vars

\* the streaming driver was asked for a move on a full board with no winner
AskedOnFullBoard ==
    /\ IsFull(board)
    /\ CheckWin(board) = EMPTY
    /\ call # <<>>
    /\ call[1] = "StreamingAlphaBetaMinimaxBot"
    /\ call[2] = <<>>
    /\ ret = Invalid

-----------------------------------------------------------------------------
(* The streaming search where it forks: concurrentAlphaBetaMinimaxStream   *)
(* with its workers, their child searches, the closer of childResults and  *)
(* the reader of resultCh, one step of one goroutine at a time             *)

\* capacity of resultCh
StreamBuffer == 10

\* the depth the root search is started with: its children, one level
\* down, are at the depth where the search no longer forks
StreamDepth == SequentialDepth + 1

\* the boards the root searches start on, and the most pieces on them
StreamDimensions == { <<3, 1, 1, 2>>, <<4, 1, 1, 2>>, <<3, 1, 2, 2>> }
StreamPieces == 2

StreamResult(move, score, final) == [Move |-> move, Score |-> score, Final |-> final]

\* the positions of at most n pieces that alternate play reaches from b
\* while no one has won
RECURSIVE positionsFrom(_, _)
positionsFrom(b, n) ==
    IF n = 0 \/ CheckWin(b) # EMPTY THEN {b}
    ELSE {b} \cup UNION { positionsFrom(Move(b, GetValidMoves(b)[k], sideToMove(b)).b, n - 1)
                          : k \in 1..Len(GetValidMoves(b)) }

\* ctx.Done() is ready: cancel() was called or the parent context is done
ctxDone(s) == s.cancelled \/ s.parentCtx = "done"

\* a return that leaves resultCh open
rootReturnLeavesOpen(s) == [s EXCEPT !.pc = "done", !.cancelled = TRUE]

\* the root returns: the deferred cancel() and close(resultCh) run
rootReturn(s) == [s EXCEPT !.pc = "done", !.cancelled = TRUE, !.resultChClosed = TRUE]

\* the end of the body of the loop over childResults: a final result
\* completes its move, and the loop ends when every move is complete
markComplete(s, result) ==
    IF result.Final
    THEN IF s.activeMoves \ {result.Move} = {}
         THEN [s EXCEPT !.activeMoves = {}, !.pc = "final"]
         ELSE [s EXCEPT !.activeMoves = @ \ {result.Move}, !.pc = "range"]
    ELSE [s EXCEPT !.pc = "range"]

\* a fold that also takes a result equal to bestScore
improvesOrEquals(s, result) ==
    IF s.isMaximizing THEN result.Score >= s.bestScore ELSE result.Score <= s.bestScore

\* result improves on bestScore in the direction of the root
improves(s, result) ==
    IF s.isMaximizing THEN result.Score > s.bestScore ELSE result.Score < s.bestScore

\* bestScore allows the root to stop its children
prunes(s) ==
    \/ s.isMaximizing /\ s.bestScore >= goDiv(MAX_INT, 3)
    \/ ~s.isMaximizing /\ s.bestScore <= goDiv(MIN_INT, 3)

\* testBoard of the worker of a move that copies bd: the copy with the move
\* of the root's side played on it
testBoardOf(bd, move, isMaximizing) == Move(copyBoard(bd), move, nodeSymbol(isMaximizing)).b

\* the boards a worker can find when it copies the board of a search on b:
\* b itself, or b with the move MakeMove has played by then
boardsCopied(b, isMaximizing) ==
    {b} \cup {Move(b, GetValidMoves(b)[k], nodeSymbol(isMaximizing)).b
              : k \in 1..Len(GetValidMoves(b))}

\* the tuples a child search that does not fork sends before it closes its
\* channel
childStream(testBoard, depth, isMaximizing) ==
    Only({ <<StreamResult(r.Move, r.Score, r.Final)>>
           : r \in {streamSequential(testBoard, depth, isMaximizing)} })

\* the forked search on b as its goroutines are launched; parentCtx is
\* "background" for the call of MakeMove, "live" for a context that can be
\* cancelled. copied and streamed tabulate testBoardOf and childStream on
\* the boards the workers can meet.
streamFork(b, depth, isMaximizing, parentCtx) ==
    [ kind |-> "stream", depth |-> depth, isMaximizing |-> isMaximizing,
      validMoves |-> GetValidMoves(b), parentCtx |-> parentCtx, cancelled |-> FALSE,
      copied |-> [bd \in boardsCopied(b, isMaximizing) |->
                    [i \in 1..Len(GetValidMoves(b)) |->
                        testBoardOf(bd, GetValidMoves(b)[i], isMaximizing)]],
      streamed |-> [tb \in {testBoardOf(bd, GetValidMoves(b)[i], isMaximizing)
                            : bd \in boardsCopied(b, isMaximizing),
                              i \in 1..Len(GetValidMoves(b))} |->
                        childStream(tb, depth - 1, ~isMaximizing)],
      worker |-> [i \in 1..Len(GetValidMoves(b)) |-> "start"],
      testBoard |-> [i \in 1..Len(GetValidMoves(b)) |-> <<>>],
      child |-> [i \in 1..Len(GetValidMoves(b)) |-> "none"],
      childCh |-> [i \in 1..Len(GetValidMoves(b)) |-> <<>>],
      childResult |-> [i \in 1..Len(GetValidMoves(b)) |-> <<>>],
      childResults |-> <<>>, childResultsClosed |-> FALSE, closer |-> "wait",
      pc |-> "range", result |-> <<>>,
      bestScore |-> initialScore(isMaximizing), bestMove |-> <<>>,
      activeMoves |-> {GetValidMoves(b)[k] : k \in 1..Len(GetValidMoves(b))},
      resultCh |-> <<>>, resultChClosed |-> FALSE,
      read |-> 0, reader |-> IF parentCtx = "background" THEN "range" ELSE "none",
      readerMove |-> <<>> ]

InitStream ==
    /\ \E dimensions \in StreamDimensions :
        \E b \in positionsFrom(NewBoard(dimensions), StreamPieces) :
            /\ alphaBetaForks(b, StreamDepth)
            /\ board = b
            /\ \E parentCtx \in {"background", "live"} :
                search = streamFork(b, StreamDepth, sideToMove(b) = X, parentCtx)
    /\ call = <<>>
    /\ ret = NoCall
    /\ hist = <<>>
    /\ tree = NoTree

\* a worker copies the board, plays its move on the copy (testBoardOf, as
\* tabulated) and starts the child search on it
WorkerStart(i) ==
    /\ search.kind = "stream"
    /\ search.worker[i] = "start"
    /\ search' = [search EXCEPT !.worker[i] = "range", !.child[i] = "run",
                    !.testBoard[i] = search.copied[board][i]]
    /\ UNCHANGED <<board, call, ret, hist, tree>>

\* a child search that does not fork sends its one result (childStream, as
\* tabulated) and closes its channel
ChildRun(i) ==
    /\ search.kind = "stream"
    /\ search.child[i] = "run"
    /\ ~alphaBetaForks(search.testBoard[i], search.depth - 1)
    /\ search' = [search EXCEPT !.child[i] = "done",
                    !.childCh[i] = search.streamed[search.testBoard[i]]]
    /\ UNCHANGED <<board, call, ret, hist, tree>>

\* a worker takes the next result of its child, or leaves the loop when the
\* child's channel is closed and empty
WorkerRange(i) ==
    /\ search.kind = "stream"
    /\ search.worker[i] = "range"
    /\ \/ /\ search.childCh[i] # <<>>
          /\ search' = [search EXCEPT !.worker[i] = "select",
                          !.childResult[i] = Head(search.childCh[i]),
                          !.childCh[i] = Tail(@)]
       \/ /\ search.childCh[i] = <<>>
          /\ search.child[i] = "done"
          /\ search' = [search EXCEPT !.worker[i] = "done"]
    /\ UNCHANGED <<board, call, ret, hist, tree>>

\* the select of a worker: it returns when ctx is done, or forwards the
\* result under its move and stops after a final one
WorkerSelect(i) ==
    /\ search.kind = "stream"
    /\ search.worker[i] = "select"
    /\ \/ /\ ctxDone(search)
          /\ search' = [search EXCEPT !.worker[i] = "done"]
       \/ /\ Len(search.childResults) < Len(search.validMoves) * 2
          /\ search' = [search EXCEPT
                          !.childResults = Append(@, StreamResult(search.validMoves[i],
                                                      search.childResult[i].Score,
                                                      search.childResult[i].Final)),
                          !.worker[i] = IF search.childResult[i].Final THEN "done" ELSE "range"]
    /\ UNCHANGED <<board, call, ret, hist, tree>>

\* the closer: wg.Wait() returns when every worker is done, then
\* close(childResults)
Closer ==
    /\ search.kind = "stream"
    /\ search.closer = "wait"
    /\ \A i \in 1..Len(search.validMoves) : search.worker[i] = "done"
    /\ search' = [search EXCEPT !.closer = "done", !.childResultsClosed = TRUE]
    /\ UNCHANGED <<board, call, ret, hist, tree>>

\* the root takes the next of childResults and folds it in, or leaves the
\* loop when the channel is closed and empty
RootRange ==
    /\ search.kind = "stream"
    /\ search.pc = "range"
    /\ \/ /\ search.childResults # <<>>
          /\ \E result \in {Head(search.childResults)} :
              \E s \in {[search EXCEPT !.childResults = Tail(@), !.result = result]} :
                search' = IF improves(s, result)
                          THEN [s EXCEPT !.bestScore = result.Score, !.bestMove = result.Move,
                                         !.pc = "emit"]
                          ELSE markComplete(s, result)
       \/ /\ search.childResults = <<>>
          /\ search.childResultsClosed
          /\ search' = [search EXCEPT !.pc = "final"]
    /\ UNCHANGED <<board, call, ret, hist, tree>>

\* the select after an improvement: the root returns when its parent's
\* context is done, or streams the improvement, then stops the children
\* when the score allows and otherwise goes on with the loop
RootEmit ==
    /\ search.kind = "stream"
    /\ search.pc = "emit"
    /\ \/ /\ search.parentCtx = "done"
          /\ search' = rootReturn(search)
       \/ /\ Len(search.resultCh) - search.read < StreamBuffer
          /\ \E s \in {[search EXCEPT !.resultCh =
                            Append(@, StreamResult(search.bestMove, search.bestScore, FALSE))]} :
                search' = IF prunes(s)
                          THEN [s EXCEPT !.cancelled = TRUE, !.pc = "final"]
                          ELSE markComplete(s, s.result)
    /\ UNCHANGED <<board, call, ret, hist, tree>>

\* the select after the loop: the root returns when its parent's context is
\* done, or sends the final result and returns
RootFinal ==
    /\ search.kind = "stream"
    /\ search.pc = "final"
    /\ \/ /\ search.parentCtx = "done"
          /\ search' = rootReturn(search)
       \/ /\ Len(search.resultCh) - search.read < StreamBuffer
          /\ search' = rootReturn([search EXCEPT !.resultCh =
                          Append(@, StreamResult(search.bestMove, search.bestScore, TRUE))])
    /\ UNCHANGED <<board, call, ret, hist, tree>>

\* the parent's context is cancelled
CancelParent ==
    /\ search.kind = "stream"
    /\ search.parentCtx = "live"
    /\ search' = [search EXCEPT !.parentCtx = "done"]
    /\ UNCHANGED <<board, call, ret, hist, tree>>

\* MakeMove takes the next tuple of the stream and stops at a final one, or
\* when the channel is closed and empty
ReaderRange ==
    /\ search.kind = "stream"
    /\ search.reader = "range"
    /\ \/ /\ search.read < Len(search.resultCh)
          /\ search' = [search EXCEPT !.read = @ + 1,
                          !.readerMove = search.resultCh[search.read + 1].Move,
                          !.reader = IF search.resultCh[search.read + 1].Final
                                     THEN "move" ELSE "range"]
       \/ /\ search.read = Len(search.resultCh)
          /\ search.resultChClosed
          /\ search' = [search EXCEPT !.reader = "move"]
    /\ UNCHANGED <<board, call, ret, hist, tree>>

\* MakeMove plays the move it read last
ReaderMove ==
    /\ search.kind = "stream"
    /\ search.reader = "move"
    /\ \E r \in {pickBest(board, IF search.readerMove = <<>> THEN <<>> ELSE <<search.readerMove>>,
                          nodeSymbol(search.isMaximizing))} :
        /\ board' = r.b
        /\ call' = <<"StreamingAlphaBetaMinimaxBot", r.move>>
        /\ ret' = r.coords
    /\ search' = [search EXCEPT !.reader = "done"]
    /\ UNCHANGED <<hist, tree>>

\* the steps of the workers and of the child searches
WorkerStep == \E i \in 1..Len(search.validMoves) : WorkerStart(i) \/ WorkerRange(i) \/ WorkerSelect(i)
ChildStep == \E i \in 1..Len(search.validMoves) : ChildRun(i)

NextStream ==
    \/ WorkerStep
    \/ ChildStep
    \/ Closer
    \/ RootRange
    \/ RootEmit
    \/ RootFinal
    \/ CancelParent
    \/ ReaderRange
    \/ ReaderMove

SpecStream == InitStream /\ [][NextStream]_vars

\* a step of any goroutine of the search or of its reader
GoroutineStep ==
    \/ Closer
    \/ RootRange
    \/ RootEmit
    \/ RootFinal
    \/ ReaderRange
    \/ WorkerStep
    \/ ChildStep
    \/ ReaderMove

\* the scheduler runs a goroutine that can take a step: while some goroutine
\* can step, a step is eventually taken; nothing obliges the parent to cancel
FairStream == WF_vars(GoroutineStep)

SpecStreamFair == SpecStream /\ FairStream

-----------------------------------------------------------------------------
\* the tuples sent on resultCh so far that are not final
nonFinal == SelectSeq(search.resultCh, LAMBDA t : ~t.Final)

(* C14: in every interleaving the scores of the non-final tuples sent on   *)
(* the root's resultCh are strictly increasing when the root maximises and *)
(* strictly decreasing when it minimises.                                  *)
StreamStrictlyMonotone ==
    \A i, j \in 1..Len(nonFinal) :
        i < j => IF search.isMaximizing
                 THEN nonFinal[i].Score < nonFinal[j].Score
                 ELSE nonFinal[i].Score > nonFinal[j].Score

\* a minimising root has streamed an improvement on an improvement
MinimiserImprovedTwice ==
    /\ ~search.isMaximizing
    /\ Len(nonFinal) >= 2

(* C15: a search whose parent context is never cancelled sends exactly one *)
(* final tuple, as the last tuple, and its channel is closed after it; no  *)
(* tuple follows a final one in any search; and every search, cancelled or *)
(* not, eventually closes its channel.                                     *)
OneFinalLastThenClosed ==
    /\ [](/\ \A i \in 1..Len(search.resultCh) :
                search.resultCh[i].Final => (i = Len(search.resultCh) /\ search.resultChClosed)
          /\ (search.pc = "done") = search.resultChClosed
          /\ (search.resultChClosed /\ search.parentCtx = "background")
                => (search.resultCh # <<>> /\ search.resultCh[Len(search.resultCh)].Final))
    /\ <>(search.resultChClosed)

\* a search under the background context has sent improvements and then
\* its final tuple, and its channel is closed
FinalAfterImprovements ==
    /\ search.parentCtx = "background"
    /\ search.resultChClosed
    /\ Len(search.resultCh) >= 3
    /\ search.resultCh[Len(search.resultCh)].Final

(* C16 as stated: the score of the final tuple of the streaming search is, *)
(* in every interleaving, the score alphaBetaMinimax returns for the same  *)
(* board and depth with the root threshold.                                *)
StreamFinalIsThreshold ==
    \A i \in 1..Len(search.resultCh) :
        (search.resultCh[i].Final /\ search.reader # "done")
            => search.resultCh[i].Score =
                   alphaBetaMinimax(board, search.depth, search.isMaximizing,
                                    rootThreshold(search.isMaximizing)).score

-----------------------------------------------------------------------------
(* The parallel searches without pruning where they fork: concurrentMinimax *)
(* (one worker per root move, each running minimax) and                    *)
(* concurrentMinimaxDeep (workers that fork again), with the results       *)
(* arriving in any order                                                   *)

\* the greatest depth the parallel searches are started with
ParallelDepth == 3

\* the boards the parallel searches start on, and the most pieces on them
ParallelDimensions == { <<3, 1, 1, 2>>, <<4, 1, 1, 2>>, <<3, 1, 2, 2>> }
ParallelPieces == 1

DepthResult(move, score, moves) == [Move |-> move, Score |-> score, Moves |-> moves]

\* a fold that takes every result, better or not
takeResultAlways(best, result, isMaximizing) ==
    [score |-> result.Score, moves |-> <<result.Move>> \o result.Moves]

\* the body of the loop over results: a strictly better result replaces the
\* best score and the best moves
takeResult(best, result, isMaximizing) ==
    IF (isMaximizing /\ result.Score > best.score) \/ (~isMaximizing /\ result.Score < best.score)
    THEN [score |-> result.Score, moves |-> <<result.Move>> \o result.Moves]
    ELSE best

RECURSIVE takeResults(_, _, _, _)
\* the loop over results that arrive in the order of the sequence
takeResults(results, k, best, isMaximizing) ==
    IF k > Len(results) THEN best
    ELSE takeResults(results, k + 1, takeResult(best, results[k], isMaximizing), isMaximizing)

\* the orders in which n results can arrive
arrivalOrders(n) == {p \in [1..n -> 1..n] : \A i, j \in 1..n : i # j => p[i] # p[j]}

RECURSIVE concurrentMinimaxDeep(_, _, _)
\* concurrentMinimaxDeep: the set of [score, moves] it can return, one for
\* each order in which the results of its workers, and of theirs, arrive
concurrentMinimaxDeep(b, depth, isMaximizing) ==
    IF ~deepForks(b, depth) THEN {concurrentMinimaxDeepSequential(b, depth, isMaximizing)}
    ELSE LET moves == GetValidMoves(b)
         IN  Only({
                { takeResults([k \in 1..Len(moves) |->
                                  DepthResult(moves[p[k]], sent[p[k]].score, sent[p[k]].moves)],
                              1, [score |-> initialScore(isMaximizing), moves |-> <<>>],
                              isMaximizing)
                  : p \in arrivalOrders(Len(moves)),
                    sent \in {f \in [1..Len(moves) -> UNION {branches[i] : i \in 1..Len(moves)}] :
                                \A i \in 1..Len(moves) : f[i] \in branches[i]} }
                : branches \in {[i \in 1..Len(moves) |->
                                    concurrentMinimaxDeep(testBoardOf(b, moves[i], isMaximizing),
                                                          depth - 1, ~isMaximizing)]} })

\* what a worker of the search can send for its move
workerResults(variant, testBoard, depth, isMaximizing) ==
    IF variant = "concurrentMinimax"
    THEN {minimax(testBoard, depth, isMaximizing)}
    ELSE concurrentMinimaxDeep(testBoard, depth, isMaximizing)

\* the search forks on b: concurrentMinimax with two valid moves or more,
\* concurrentMinimaxDeep as deepForks says
parallelForks(variant, b, depth) ==
    IF variant = "concurrentMinimax"
    THEN Len(GetValidMoves(b)) > 1 /\ depth >= 1
    ELSE deepForks(b, depth)

\* the forked search on b as its goroutines are launched
parallelFork(variant, b, depth, isMaximizing) ==
    [ kind |-> "parallel", variant |-> variant, board |-> b, depth |-> depth,
      isMaximizing |-> isMaximizing, validMoves |-> GetValidMoves(b),
      worker |-> [i \in 1..Len(GetValidMoves(b)) |-> "start"],
      sent |-> [i \in 1..Len(GetValidMoves(b)) |-> <<>>],
      arrived |-> <<>>,
      results |-> <<>>, resultsClosed |-> FALSE, closer |-> "wait",
      pc |-> "range",
      best |-> [score |-> initialScore(isMaximizing),
                moves |-> IF variant = "concurrentMinimax"
                          THEN <<GetValidMoves(b)[1]>> ELSE <<>>] ]

InitParallel ==
    /\ \E dimensions \in ParallelDimensions :
        \E b \in positionsFrom(NewBoard(dimensions), ParallelPieces) :
            \E variant \in {"concurrentMinimax", "concurrentMinimaxDeep"},
               depth \in 1..ParallelDepth :
                /\ parallelForks(variant, b, depth)
                /\ board = b
                /\ search = parallelFork(variant, b, depth, sideToMove(b) = X)
    /\ call = <<>>
    /\ ret = NoCall
    /\ hist = <<>>
    /\ tree = NoTree

\* a worker copies the board, plays its move on the copy, evaluates the
\* copy and sends the result; results has room for every worker
ParallelWorker(i) ==
    /\ search.kind = "parallel"
    /\ search.worker[i] = "start"
    /\ \E r \in workerResults(search.variant,
                              testBoardOf(board, search.validMoves[i], search.isMaximizing),
                              search.depth - 1, ~search.isMaximizing) :
        search' = [search EXCEPT
                     !.worker[i] = "done",
                     !.sent[i] = DepthResult(search.validMoves[i], r.score,
                                     IF search.variant = "concurrentMinimax" THEN <<>> ELSE r.moves),
                     !.results = Append(@, DepthResult(search.validMoves[i], r.score,
                                     IF search.variant = "concurrentMinimax" THEN <<>> ELSE r.moves))]
    /\ UNCHANGED <<board, call, ret, hist, tree>>

\* the closer: wg.Wait() returns when every worker is done, then
\* close(results)
ParallelCloser ==
    /\ search.kind = "parallel"
    /\ search.closer = "wait"
    /\ \A i \in 1..Len(search.validMoves) : search.worker[i] = "done"
    /\ search' = [search EXCEPT !.closer = "done", !.resultsClosed = TRUE]
    /\ UNCHANGED <<board, call, ret, hist, tree>>

\* the caller takes the next result and folds it in, or leaves the loop
\* when results is closed and empty
ParallelRange ==
    /\ search.kind = "parallel"
    /\ search.pc = "range"
    /\ \/ /\ search.results # <<>>
          /\ search' = [search EXCEPT
                          !.results = Tail(@),
                          !.arrived = Append(@, Head(search.results).Move),
                          !.best = takeResult(@, Head(search.results), search.isMaximizing)]
       \/ /\ search.results = <<>>
          /\ search.resultsClosed
          /\ search' = [search EXCEPT !.pc = "return"]
    /\ UNCHANGED <<board, call, ret, hist, tree>>

\* the search has returned and MakeMove plays the first of the best moves
ParallelMakeMove ==
    /\ search.kind = "parallel"
    /\ search.pc = "return"
    /\ \E r \in {pickBest(board, search.best.moves, nodeSymbol(search.isMaximizing))} :
        /\ board' = r.b
        /\ call' = <<search.variant, r.move>>
        /\ ret' = r.coords
    /\ search' = [search EXCEPT !.pc = "done"]
    /\ UNCHANGED <<hist, tree>>

\* the steps of the workers
ParallelWorkerStep == \E i \in 1..Len(search.validMoves) : ParallelWorker(i)

NextParallel ==
    \/ ParallelWorkerStep
    \/ ParallelCloser
    \/ ParallelRange
    \/ ParallelMakeMove

SpecParallel == InitParallel /\ [][NextParallel]_vars

\* the best of a set of scores in the direction of the root
bestOf(scores, isMaximizing) ==
    CHOOSE v \in scores : \A w \in scores : IF isMaximizing THEN v >= w ELSE v <= w

\* the score the search returns when the results arrive in the order of the
\* valid moves, at every level
scoreInOrder(variant, b, depth, isMaximizing) ==
    IF variant = "concurrentMinimax" THEN minimax(b, depth, isMaximizing).score
    ELSE bestOf({r.score : r \in concurrentMinimaxDeep(b, depth, isMaximizing)}, isMaximizing)

(* C17: when concurrentMinimax or concurrentMinimaxDeep has taken all the  *)
(* results, its best score is the best, in the root's direction, of the    *)
(* scores of all the root moves, and no worker could have sent another     *)
(* score for its move, whatever order the results arrived in.              *)
ParallelScoreIsBest ==
    search.pc \in {"return", "done"} =>
        /\ search.best.score =
              bestOf({search.sent[i].Score : i \in 1..Len(search.validMoves)}, search.isMaximizing)
        /\ \A i \in 1..Len(search.validMoves) :
              \A r \in workerResults(search.variant,
                                     testBoardOf(search.board, search.validMoves[i],
                                                 search.isMaximizing),
                                     search.depth - 1, ~search.isMaximizing) :
                  r.score = search.sent[i].Score

\* concurrentMinimaxDeep has returned after results that arrived out of
\* order, with a best move that is not the first of the moves of best score
TieBrokenByArrival ==
    /\ search.variant = "concurrentMinimaxDeep"
    /\ search.pc = "return"
    /\ search.arrived # search.validMoves
    /\ \E i \in 1..Len(search.validMoves) :
        /\ search.sent[i].Score = search.best.score
        /\ \A j \in 1..(i - 1) : search.sent[j].Score # search.best.score
        /\ search.best.moves[1] # search.validMoves[i]

-----------------------------------------------------------------------------
(* The parallel threshold search where it forks: concurrentAlphaBetaMinimax *)
(* as MakeMove calls it, with its workers, the closer of results and the   *)
(* loops of the caller, one step of one goroutine at a time                *)

MoveResult(move, score) == [Move |-> move, Score |-> score]

\* the forked search on b as its goroutines are launched; parentScore is nil
\* in the call of MakeMove
alphaBetaFork(b, depth, isMaximizing, threshold) ==
    [ kind |-> "alphabeta", board |-> b, depth |-> depth, isMaximizing |-> isMaximizing,
      threshold |-> threshold, validMoves |-> GetValidMoves(b),
      currentScore |-> initialScore(isMaximizing), cancelled |-> FALSE,
      worker |-> [i \in 1..Len(GetValidMoves(b)) |-> "start"],
      score |-> [i \in 1..Len(GetValidMoves(b)) |-> 0],
      results |-> <<>>, resultsClosed |-> FALSE, closer |-> "wait",
      pc |-> "range", arrived |-> <<>>,
      bestScore |-> initialScore(isMaximizing), bestMoves |-> <<>> ]

InitAlphaBeta ==
    /\ \E dimensions \in StreamDimensions :
        \E b \in positionsFrom(NewBoard(dimensions), StreamPieces) :
            /\ alphaBetaForks(b, StreamDepth)
            /\ board = b
            /\ search = alphaBetaFork(b, StreamDepth, sideToMove(b) = X,
                                      rootThreshold(sideToMove(b) = X))
    /\ call = <<>>
    /\ ret = NoCall
    /\ hist = <<>>
    /\ tree = NoTree

\* the first select of a worker: it returns when ctx is done and goes on
\* otherwise
AlphaBetaWorkerStart(i) ==
    /\ search.kind = "alphabeta"
    /\ search.worker[i] = "start"
    /\ search' = [search EXCEPT !.worker[i] = IF search.cancelled THEN "done" ELSE "copy"]
    /\ UNCHANGED <<board, call, ret, hist, tree>>

\* a worker copies the board, plays its move on the copy, reads the shared
\* score as the threshold of its child and searches the child, which does
\* not fork
AlphaBetaWorkerSearch(i) ==
    /\ search.kind = "alphabeta"
    /\ search.worker[i] = "copy"
    /\ \E testBoard \in {testBoardOf(board, search.validMoves[i], search.isMaximizing)} :
        /\ ~alphaBetaForks(testBoard, search.depth - 1)
        /\ \E r \in {concurrentAlphaBetaMinimaxSequential(testBoard, search.depth - 1,
                                                         ~search.isMaximizing,
                                                         search.currentScore)} :
            search' = [search EXCEPT !.worker[i] = "check", !.score[i] = r.score]
    /\ UNCHANGED <<board, call, ret, hist, tree>>

\* the second select of a worker: it returns when ctx is done and sends its
\* result otherwise; results has room for every worker
AlphaBetaWorkerSend(i) ==
    /\ search.kind = "alphabeta"
    /\ search.worker[i] = "check"
    /\ \/ /\ search.cancelled
          /\ search' = [search EXCEPT !.worker[i] = "done"]
       \/ /\ ~search.cancelled
          /\ Len(search.results) < Len(search.validMoves)
          /\ search' = [search EXCEPT
                          !.worker[i] = "done",
                          !.results = Append(@, MoveResult(search.validMoves[i], search.score[i]))]
    /\ UNCHANGED <<board, call, ret, hist, tree>>

\* the closer: wg.Wait() returns when every worker is done, then
\* close(results)
AlphaBetaCloser ==
    /\ search.kind = "alphabeta"
    /\ search.closer = "wait"
    /\ \A i \in 1..Len(search.validMoves) : search.worker[i] = "done"
    /\ search' = [search EXCEPT !.closer = "done", !.resultsClosed = TRUE]
    /\ UNCHANGED <<board, call, ret, hist, tree>>

\* a result that is strictly better becomes the best, the shared score is
\* updated, and when the best score reaches the threshold the caller
\* cancels ctx and leaves the loop
takeMoveResult(s, result) ==
    IF (s.isMaximizing /\ result.Score > s.bestScore) \/ (~s.isMaximizing /\ result.Score < s.bestScore)
    THEN [s EXCEPT !.bestScore = result.Score, !.bestMoves = <<result.Move>>,
                   !.currentScore = result.Score,
                   !.cancelled = IF (s.isMaximizing /\ result.Score >= s.threshold)
                                    \/ (~s.isMaximizing /\ result.Score <= s.threshold)
                                 THEN TRUE ELSE @,
                   !.pc = IF (s.isMaximizing /\ result.Score >= s.threshold)
                             \/ (~s.isMaximizing /\ result.Score <= s.threshold)
                          THEN "drain" ELSE "range"]
    ELSE s

\* the caller takes the next result, or leaves the loop when results is
\* closed and empty
AlphaBetaRange ==
    /\ search.kind = "alphabeta"
    /\ search.pc = "range"
    /\ \/ /\ search.results # <<>>
          /\ search' = takeMoveResult([search EXCEPT !.results = Tail(@),
                                          !.arrived = Append(@, Head(search.results).Move)],
                                      Head(search.results))
       \/ /\ search.results = <<>>
          /\ search.resultsClosed
          /\ search' = [search EXCEPT !.pc = "drain"]
    /\ UNCHANGED <<board, call, ret, hist, tree>>

\* a caller that returns without draining results
AlphaBetaReturnsUndrained ==
    /\ search.kind = "alphabeta"
    /\ search.pc = "drain"
    /\ search' = [search EXCEPT !.pc = "return", !.cancelled = TRUE]
    /\ UNCHANGED <<board, call, ret, hist, tree>>

\* the caller drains results until it is closed and empty, then returns
AlphaBetaDrain ==
    /\ search.kind = "alphabeta"
    /\ search.pc = "drain"
    /\ \/ /\ search.results # <<>>
          /\ search' = [search EXCEPT !.results = Tail(@)]
       \/ /\ search.results = <<>>
          /\ search.resultsClosed
          /\ search' = [search EXCEPT !.pc = "return", !.cancelled = TRUE]
    /\ UNCHANGED <<board, call, ret, hist, tree>>

\* the search has returned and MakeMove plays the first of the best moves
AlphaBetaSearchMakeMove ==
    /\ search.kind = "alphabeta"
    /\ search.pc = "return"
    /\ \E r \in {pickBest(board, search.bestMoves, nodeSymbol(search.isMaximizing))} :
        /\ board' = r.b
        /\ call' = <<"ConcurrentAlphaBetaMinimaxBot", r.move>>
        /\ ret' = r.coords
    /\ search' = [search EXCEPT !.pc = "done"]
    /\ UNCHANGED <<hist, tree>>

\* the steps of the workers
AlphaBetaWorkerStep ==
    \E i \in 1..Len(search.validMoves) :
        AlphaBetaWorkerStart(i) \/ AlphaBetaWorkerSearch(i) \/ AlphaBetaWorkerSend(i)

NextAlphaBeta ==
    \/ AlphaBetaWorkerStep
    \/ AlphaBetaCloser
    \/ AlphaBetaRange
    \/ AlphaBetaDrain
    \/ AlphaBetaSearchMakeMove

SpecAlphaBeta == InitAlphaBeta /\ [][NextAlphaBeta]_vars

(* C18 as stated: the score concurrentAlphaBetaMinimax returns to MakeMove *)
(* is the same in every interleaving: it is the score returned when the    *)
(* worker of the first valid move is the first to deliver.                 *)
AlphaBetaScoreFixed ==
    (search.pc \in {"return", "done"})
        => search.bestScore =
              concurrentAlphaBetaMinimaxSequential(
                  testBoardOf(search.board, search.validMoves[1], search.isMaximizing),
                  search.depth - 1, ~search.isMaximizing,
                  initialScore(search.isMaximizing)).score

-----------------------------------------------------------------------------
(* Both searches with cancellation, under the scheduler                    *)

InitSearches == InitStream \/ InitAlphaBeta

NextSearches == NextStream \/ NextAlphaBeta

SpecSearches == InitSearches /\ [][NextSearches]_vars /\ FairStream

\* every goroutine of the streaming search has terminated: the workers, the
\* child searches they started, the closer and the root
StreamQuiescent ==
    /\ \A i \in 1..Len(search.validMoves) :
          search.worker[i] = "done" /\ search.child[i] # "run"
    /\ search.closer = "done"
    /\ search.pc = "done"

(* C19: when concurrentAlphaBetaMinimax returns, every worker it started   *)
(* has terminated and the closer has closed results; and every goroutine   *)
(* of a streaming search, cancelled at any point or not, eventually        *)
(* terminates and stays so.                                                *)
NoWorkerLeaks ==
    /\ []((search.kind = "alphabeta" /\ search.pc \in {"return", "done"})
            => (/\ \A i \in 1..Len(search.validMoves) : search.worker[i] = "done"
                /\ search.closer = "done"))
    /\ <>[](search.kind = "stream" => StreamQuiescent)

\* a streaming search was cancelled before it sent a final tuple, results
\* of its workers were left unread, and every goroutine has terminated
CancelledAndQuiescent ==
    /\ search.kind = "stream"
    /\ search.parentCtx = "done"
    /\ \A k \in 1..Len(search.resultCh) : ~search.resultCh[k].Final
    /\ search.childResults # <<>>
    /\ StreamQuiescent

-----------------------------------------------------------------------------
(* The persistent driver: PersistentMinimaxBot, its search tree, the       *)
(* goroutine of every node, the background deepener and the game loop of   *)
(* RunEvEStream that calls MakeMove, OpponentMove and Close                *)
(*                                                                         *)
(* naiveMinimaxBot.go holds two sources of the persistent bot; variant 1   *)
(* is the first (lines 96-533) and variant 2 the second (lines 543-994).   *)
(* A node is named <<gen, path>>: gen numbers the SearchTree the node was  *)
(* created in and path is the sequence of moves after "root" in its ID.    *)
(* A lock is held across steps only where the code can block while it      *)
(* holds it; a step ends before every operation that can block.            *)

Variants == {1, 2}

\* the boards the game loop is run on
PersistentDimensions == { <<1, 1, 3, 3>>, <<2, 1, 1, 2>> }

\* the initialDepth arguments of NewPersistentMinimaxBot
MaxInitialDepth == 2

\* the deepener stops incrementing maxDepth here
DepthCap == 3

\* variant 1: maxDepth of the first tree, the hard depth limit, and the
\* limit on the children of one node
FirstMaxDepth == 2
HardDepthLimit == 6
maxChildren == 8

\* a nil *SearchNode, and the main goroutine as the holder of a lock
NoNode == <<>>
Caller == <<0, <<>>>>

\* a sync.RWMutex: the goroutine that holds it for writing and the
\* goroutines that hold it for reading
Unlocked == [w |-> NoNode, r |-> {}]

\* a SearchNode; cancelled is the node's own cancel function having been
\* called, and Children holds the keys of the Children map
SearchNode(b, move, depth, isMaximizing, parent, score) ==
    [ Board |-> b, Move |-> move, Depth |-> depth, Score |-> score,
      IsMaximizing |-> isMaximizing, Parent |-> parent, Children |-> {},
      cancelled |-> FALSE, mutex |-> Unlocked,
      expanded |-> FALSE, calculating |-> FALSE ]

\* the goroutine of a node before it runs: wg is the tree whose WaitGroup
\* it added itself to, current the node propagateScore is at, k the index
\* of the next child to create, best the score propagateScore computed
goExpandNode == [pc |-> "new", wg |-> 0, current |-> NoNode, k |-> 0, best |-> 0]

\* Children[move] of node n
childOf(n, move) == <<n[1], Append(n[2], move)>>

\* NewPersistentMinimaxBot: the bot and its first SearchTree. gen, maxDepth,
\* nodes, mutex, cancelled and wg are the fields of bot.tree; mutex is TRUE
\* while the caller holds tree.mutex; node and worker are the SearchNodes
\* and their goroutines; boards is the table of Evaluate and Move on the
\* boards of the game; caller is the position of the main goroutine, with
\* the stack of the recursion of killBranch or updateDepths it is in, and
\* for a moveRoot that found its child the registry and the nodes of the
\* other branches at that moment
NewPersistentMinimaxBot(symbol, initialDepth, variant) ==
    [ kind |-> "persistent", variant |-> variant,
      Symbol |-> symbol, InitialDepth |-> initialDepth,
      rootNode |-> NoNode,
      gen |-> 1,
      maxDepth |-> IF variant = 1 THEN FirstMaxDepth ELSE initialDepth,
      nodes |-> {}, mutex |-> FALSE, cancelled |-> FALSE, wg |-> 0,
      node |-> <<>>, worker |-> <<>>,
      boards |-> <<>>,
      caller |-> [op |-> "", pc |-> "idle", move |-> <<>>, after |-> "",
                  oldRoot |-> NoNode, stack |-> <<>>, nodes |-> {}, killed |-> {}] ]

\* node.ctx.Done(): the context of a node is derived from the context of
\* the node that created it, and the root's from the tree's
nodeCtxDone(t, n) ==
    \/ n[1] < t.gen
    \/ t.cancelled
    \/ \E i \in 0..Len(n[2]) : t.node[<<n[1], SubSeq(n[2], 1, i)>>].cancelled

\* initializeRoot: the root node over a copy of the board, registered as
\* "root", and its goroutine
initializeRoot(t, b) ==
    LET rootID == <<t.gen, <<>>>>
    IN  [t EXCEPT !.rootNode = rootID,
                  !.nodes = @ \cup {rootID},
                  !.node = (rootID :> SearchNode(copyBoard(b), <<>>, 0, t.Symbol = X, NoNode, 0)) @@ @,
                  !.worker = (rootID :> goExpandNode) @@ @]

\* the game loop goes on while nobody has won and a move is left
gameOver(b) == CheckWin(b) # EMPTY \/ Len(GetValidMoves(b)) = 0

\* the boards alternate play reaches from b
RECURSIVE boardsFrom(_)
boardsFrom(b) ==
    {b} \cup UNION { boardsFrom(Move(b, GetValidMoves(b)[k], sideToMove(b)).b)
                     : k \in 1..Len(GetValidMoves(b)) }

\* Evaluate and Move on every board of a game that starts at b, computed
\* once: Score is b.Evaluate() and Move[m][s] the board after b.Move(m, s)
boardTable(b) ==
    [ c \in boardsFrom(b) |->
        [ Score |-> Evaluate(c),
          Move |-> [m \in {GetValidMoves(c)[k] : k \in 1..Len(GetValidMoves(c))} |->
                      [s \in Players |-> Move(c, m, s).b]] ] ]

InitPersistent ==
    /\ \E dimensions \in PersistentDimensions :
           /\ board = NewBoard(dimensions)
           /\ \E symbol \in Players, initialDepth \in 1..MaxInitialDepth, variant \in Variants :
                  tree = [NewPersistentMinimaxBot(symbol, initialDepth, variant)
                              EXCEPT !.boards = boardTable(NewBoard(dimensions))]
    /\ call = <<>>
    /\ ret = NoCall
    /\ hist = <<>>
    /\ search = NoSearch

\* the first statement of cleanup: tree.cancel(); the caller then waits in
\* wg.Wait()
cancelTree(t, after) ==
    [t EXCEPT !.cancelled = TRUE, !.caller.pc = "cleanup", !.caller.after = after]

\* MakeMove up to getBestMove: initializeRoot when the bot has no root,
\* updateRoot otherwise, which is cleanup followed by initializeRoot
PersistentMakeMove ==
    /\ tree.kind = "persistent"
    /\ tree.caller.pc = "idle"
    /\ ~gameOver(board)
    /\ sideToMove(board) = tree.Symbol
    /\ tree' = IF tree.rootNode = NoNode
               THEN [initializeRoot(tree, board) EXCEPT !.caller.op = "MakeMove",
                                                        !.caller.pc = "getBestMove"]
               ELSE [cancelTree(tree, "initializeRoot") EXCEPT !.caller.op = "MakeMove"]
    /\ UNCHANGED <<board, call, ret, hist, search>>

\* the rest of cleanup: wg.Wait() returns when the counter is zero, the bot
\* loses its root and gets a new tree with a new deepener. Of the old tree
\* only the goroutines that have not run yet are left.
PersistentCleanup ==
    /\ tree.kind = "persistent"
    /\ tree.caller.pc = "cleanup"
    /\ tree.wg = 0
    /\ LET late == {n \in DOMAIN tree.worker : tree.worker[n].pc = "new"}
           fresh == [tree EXCEPT !.rootNode = NoNode,
                                 !.gen = @ + 1,
                                 !.maxDepth = tree.InitialDepth,
                                 !.nodes = {}, !.mutex = FALSE,
                                 !.cancelled = FALSE, !.wg = 0,
                                 !.node = [n \in late |-> tree.node[n]],
                                 !.worker = [n \in late |-> tree.worker[n]],
                                 !.caller.after = ""]
       IN  tree' = CASE tree.caller.after = "initializeRoot" ->
                          [initializeRoot(fresh, board) EXCEPT !.caller.pc = "getBestMove"]
                     [] tree.caller.after = "return" ->
                          [fresh EXCEPT !.caller.pc = "idle", !.caller.op = ""]
                     [] OTHER ->
                          [fresh EXCEPT !.caller.pc = "closed", !.caller.op = ""]
    /\ UNCHANGED <<board, call, ret, hist, search>>

\* the end of MakeMove: the fallback to the first valid move of the board,
\* board.Move, and the call of moveRoot, which returns at once without a
\* root
playBestMove(t, best) ==
    LET validMoves == GetValidMoves(board)
        bestMove == IF best = <<>> /\ Len(validMoves) > 0 THEN validMoves[1] ELSE best
    IN  IF bestMove = <<>>
        THEN /\ tree' = [t EXCEPT !.caller.pc = "idle", !.caller.op = ""]
             /\ board' = board
        ELSE /\ board' = t.boards[board].Move[bestMove][t.Symbol]
             /\ tree' = IF t.rootNode = NoNode
                        THEN [t EXCEPT !.caller.pc = "idle", !.caller.op = ""]
                        ELSE [t EXCEPT !.caller.pc = "moveRoot", !.caller.move = bestMove]

\* the first valid move of a board, "" without one
firstValidMove(b) == IF Len(GetValidMoves(b)) > 0 THEN GetValidMoves(b)[1] ELSE <<>>

\* variant 1 takes the first valid move of the board. Variant 2 calls
\* getBestMove: it read-locks the root; without children it returns the
\* first valid move of the root's board, with children it goes on to read
\* them while it holds the root's lock
PersistentGetBestMove ==
    /\ tree.kind = "persistent"
    /\ tree.caller.pc = "getBestMove"
    /\ IF tree.variant = 1
       THEN playBestMove(tree, firstValidMove(board))
       ELSE /\ tree.node[tree.rootNode].mutex.w = NoNode
            /\ IF tree.node[tree.rootNode].Children = {}
               THEN playBestMove(tree, firstValidMove(tree.node[tree.rootNode].Board))
               ELSE /\ tree' = [tree EXCEPT !.node[tree.rootNode].mutex.r = @ \cup {Caller},
                                            !.caller.pc = "children"]
                    /\ board' = board
    /\ UNCHANGED <<call, ret, hist, search>>

\* the best score among children in the direction of their parent
bestChildScore(t, n) ==
    LET scores == {t.node[childOf(n, m)].Score : m \in t.node[n].Children}
    IN  IF t.node[n].IsMaximizing
        THEN CHOOSE s \in scores : \A s2 \in scores : s >= s2
        ELSE CHOOSE s \in scores : \A s2 \in scores : s <= s2

\* the moves getBestMove can return: the map is ranged over in any order
\* and a child takes over only with a strictly better score, so the first
\* child met with the best score wins; when no child beats the initial
\* score the first key met is returned
bestMoves(t, n) ==
    LET best == bestChildScore(t, n)
    IN  IF best = initialScore(t.node[n].IsMaximizing)
        THEN t.node[n].Children
        ELSE {m \in t.node[n].Children : t.node[childOf(n, m)].Score = best}

\* getBestMove reads the score of every child under the child's read lock,
\* releases the root and MakeMove plays the move
PersistentRangeChildren ==
    /\ tree.kind = "persistent"
    /\ tree.caller.pc = "children"
    /\ \A m \in tree.node[tree.rootNode].Children :
           tree.node[childOf(tree.rootNode, m)].mutex.w = NoNode
    /\ \E bestMove \in bestMoves(tree, tree.rootNode) :
           playBestMove([tree EXCEPT !.node[tree.rootNode].mutex.r = @ \ {Caller}], bestMove)
    /\ UNCHANGED <<call, ret, hist, search>>

\* the game loop when the other player is to move: the other player moves
\* on the board and the bot is told by OpponentMove, which calls moveRoot
\* when the bot has a root
PersistentOpponentMove ==
    /\ tree.kind = "persistent"
    /\ tree.caller.pc = "idle"
    /\ ~gameOver(board)
    /\ sideToMove(board) # tree.Symbol
    /\ \E k \in 1..Len(GetValidMoves(board)) :
           /\ board' = tree.boards[board].Move[GetValidMoves(board)[k]][sideToMove(board)]
           /\ tree' = IF tree.rootNode = NoNode
                      THEN tree
                      ELSE [tree EXCEPT !.caller.op = "OpponentMove",
                                        !.caller.pc = "moveRoot",
                                        !.caller.move = GetValidMoves(board)[k]]
    /\ UNCHANGED <<call, ret, hist, search>>

\* the deferred Close of the game loop: cleanup
PersistentClose ==
    /\ tree.kind = "persistent"
    /\ tree.caller.pc = "idle"
    /\ gameOver(board)
    /\ tree' = [cancelTree(tree, "Close") EXCEPT !.caller.op = "Close"]
    /\ UNCHANGED <<board, call, ret, hist, search>>

\* the nodes below n, n included
subtree(t, n) ==
    {d \in DOMAIN t.node : /\ d[1] = n[1]
                           /\ Len(d[2]) >= Len(n[2])
                           /\ SubSeq(d[2], 1, Len(n[2])) = n[2]}

\* one call of killBranch or updateDepths on the caller's stack: todo holds
\* the children the call has still to recurse into
frame(n, depth, phase) == [node |-> n, depth |-> depth, todo |-> {}, phase |-> phase]

\* a moveRoot that leaves bot.rootNode at the old root
reRootStale(t, newRoot) ==
    [t EXCEPT !.node[newRoot].Parent = NoNode,
              !.node[newRoot].Depth = 0,
              !.caller.pc = "updateDepths",
              !.caller.oldRoot = t.rootNode,
              !.caller.stack = <<frame(newRoot, 0, "lock")>>]

\* moveRoot after the branches are killed: the child becomes the root, its
\* Parent and Depth are written without its lock, and updateDepths starts
\* at it
reRoot(t, newRoot) ==
    [t EXCEPT !.rootNode = newRoot,
              !.node[newRoot].Parent = NoNode,
              !.node[newRoot].Depth = 0,
              !.caller.pc = "updateDepths",
              !.caller.oldRoot = t.rootNode,
              !.caller.stack = <<frame(newRoot, 0, "lock")>>]

\* variant 1, killBranch: the call on top of the stack goes on with a
\* child it has not killed yet, in any order, cancelling it first; without
\* one it goes on to delete its node, and the loop of moveRoot over the
\* root's children goes on to re-root
killNext(t, stack) ==
    IF Head(stack).todo # {}
    THEN { [t EXCEPT !.node[c].cancelled = TRUE,
                     !.caller.stack = <<frame(c, 0, "copy"), [Head(stack) EXCEPT !.todo = @ \ {c}]>>
                                      \o Tail(stack)]
           : c \in Head(stack).todo }
    ELSE IF Head(stack).phase = "moveRoot"
         THEN { reRoot(t, childOf(t.rootNode, t.caller.move)) }
         ELSE { [t EXCEPT !.caller.stack = <<[Head(stack) EXCEPT !.phase = "delete"]>> \o Tail(stack)] }

\* variant 2, killBranch: every node of the branch is cancelled and deleted
\* from the registry; nothing in it can block
killBranch(t, killed) ==
    [t EXCEPT !.node = [n \in DOMAIN @ |-> IF n \in killed THEN [@[n] EXCEPT !.cancelled = TRUE] ELSE @[n]],
              !.nodes = @ \ killed]

\* moveRoot: it locks tree.mutex and looks the move up among the root's
\* children, without the root's lock. Without the child it calls cleanup,
\* variant 1 after unlocking tree.mutex and variant 2 holding it. With the
\* child it kills the other branches and re-roots.
PersistentMoveRoot ==
    /\ tree.kind = "persistent"
    /\ tree.caller.pc = "moveRoot"
    /\ ~tree.mutex
    /\ LET root == tree.rootNode
           move == tree.caller.move
           siblings == {childOf(root, m) : m \in tree.node[root].Children \ {move}}
           found == [tree EXCEPT !.mutex = TRUE,
                                 !.caller.nodes = tree.nodes,
                                 !.caller.killed = UNION {subtree(tree, s) : s \in siblings}]
       IN  IF move \notin tree.node[root].Children
           THEN tree' = [cancelTree(tree, "return") EXCEPT !.mutex = (tree.variant = 2)]
           ELSE IF tree.variant = 1
                THEN tree' \in killNext([found EXCEPT !.caller.pc = "killBranch"],
                                        <<[frame(root, 0, "moveRoot") EXCEPT !.todo = siblings]>>)
                ELSE tree' = reRoot(killBranch(found, found.caller.killed),
                                    childOf(root, move))
    /\ UNCHANGED <<board, call, ret, hist, search>>

\* variant 1, killBranch after node.cancel(): it copies the children under
\* the node's read lock and recurses into them, then it locks tree.mutex to
\* delete the node from the registry
PersistentKillBranch ==
    /\ tree.kind = "persistent"
    /\ tree.caller.pc = "killBranch"
    /\ LET top == Head(tree.caller.stack)
       IN  IF top.phase = "copy"
           THEN /\ tree.node[top.node].mutex.w = NoNode
                /\ tree' \in killNext(tree,
                                 <<[top EXCEPT !.todo = {childOf(top.node, m) : m \in tree.node[top.node].Children},
                                               !.phase = "children"]>>
                                 \o Tail(tree.caller.stack))
           ELSE /\ ~tree.mutex
                /\ tree' \in killNext([tree EXCEPT !.nodes = @ \ {top.node}], Tail(tree.caller.stack))
    /\ UNCHANGED <<board, call, ret, hist, search>>

\* updateDepths returns from the calls that have no child left and
\* recurses into the next child, in any order
RECURSIVE descend(_)
descend(stack) ==
    IF stack = <<>>
    THEN {<<>>}
    ELSE IF Head(stack).todo = {}
         THEN descend(Tail(stack))
         ELSE { <<frame(c, Head(stack).depth + 1, "lock"), [Head(stack) EXCEPT !.todo = @ \ {c}]>>
                \o Tail(stack)
                : c \in Head(stack).todo }

\* the end of moveRoot: the old root is cancelled and deleted from the
\* registry and tree.mutex is unlocked
moveRootReturn(t) ==
    [t EXCEPT !.node[t.caller.oldRoot].cancelled = TRUE,
              !.nodes = @ \ {t.caller.oldRoot},
              !.mutex = FALSE,
              !.caller = [op |-> "", pc |-> "idle", move |-> <<>>, after |-> "",
                          oldRoot |-> NoNode, stack |-> <<>>, nodes |-> {}, killed |-> {}]]

\* updateDepths: it writes the depth of a node under the node's lock and
\* recurses into the children; after the last node moveRoot returns
PersistentUpdateDepths ==
    /\ tree.kind = "persistent"
    /\ tree.caller.pc = "updateDepths"
    /\ LET top == Head(tree.caller.stack)
           n == top.node
           updated == [tree EXCEPT !.node[n].Depth = top.depth]
       IN  /\ tree.node[n].mutex = Unlocked
           /\ \E next \in descend(<<[top EXCEPT !.todo = {childOf(n, m) : m \in tree.node[n].Children}]>>
                                  \o Tail(tree.caller.stack)) :
                  tree' = IF next = <<>>
                          THEN moveRootReturn(updated)
                          ELSE [updated EXCEPT !.caller.stack = next]
    /\ UNCHANGED <<board, call, ret, hist, search>>

\* backgroundExpander on a tick: maxDepth grows by one under tree.mutex,
\* in variant 1 up to the hard limit
BackgroundExpander ==
    /\ tree.kind = "persistent"
    /\ ~tree.mutex
    /\ tree.maxDepth < DepthCap
    /\ tree.variant = 1 => tree.maxDepth < HardDepthLimit
    /\ tree' = [tree EXCEPT !.maxDepth = @ + 1]
    /\ UNCHANGED <<board, call, ret, hist, search>>

\* expandNode when it starts to run: wg.Add(1) on the tree the bot has at
\* that moment, and the deferred wg.Done() on the same tree
ExpandNodeStart(n) ==
    /\ tree.kind = "persistent"
    /\ tree.worker[n].pc = "new"
    /\ tree' = [tree EXCEPT !.wg = @ + 1,
                            !.worker[n].wg = tree.gen,
                            !.worker[n].pc = "select"]
    /\ UNCHANGED <<board, call, ret, hist, search>>

\* the select of expandNode: it returns when the node's context is done,
\* which runs the deferred wg.Done(), and goes on to lock the node otherwise
ExpandNodeSelect(n) ==
    /\ tree.kind = "persistent"
    /\ tree.worker[n].pc = "select"
    /\ tree' = IF ~nodeCtxDone(tree, n)
               THEN [tree EXCEPT !.worker[n].pc = "lock"]
               ELSE IF n[1] < tree.gen
                    THEN [tree EXCEPT !.wg = IF tree.worker[n].wg = tree.gen THEN @ - 1 ELSE @,
                                      !.node = [m \in DOMAIN @ \ {n} |-> @[m]],
                                      !.worker = [m \in DOMAIN @ \ {n} |-> @[m]]]
                    ELSE [tree EXCEPT !.wg = IF tree.worker[n].wg = tree.gen THEN @ - 1 ELSE @,
                                      !.worker[n].pc = "done"]
    /\ UNCHANGED <<board, call, ret, hist, search>>

\* the end of one pass of expandNode: the node is unlocked and the
\* goroutine sleeps before the next select
unlockNode(t, n) ==
    [t EXCEPT !.node[n].mutex.w = NoNode,
              !.worker[n] = [@ EXCEPT !.pc = "select", !.current = NoNode, !.k = 0, !.best = 0]]

\* the call of propagateScore(node): current := node.Parent, and the loop
\* ends at once without a parent
propagateScore(t, n) ==
    IF t.node[n].Parent = NoNode
    THEN unlockNode(t, n)
    ELSE [t EXCEPT !.worker[n].current = t.node[n].Parent,
                   !.worker[n].pc = "propagateScore"]

\* the valid moves expandNode creates children for
expandMoves(t, n) ==
    LET validMoves == GetValidMoves(t.node[n].Board)
    IN  IF t.variant = 1 /\ Len(validMoves) > maxChildren
        THEN SubSeq(validMoves, 1, maxChildren)
        ELSE validMoves

\* expandNode once it holds the node's lock and has read maxDepth: a node
\* at the maximum depth is a leaf, evaluated once and propagated; a node
\* above it that is not expanded creates its children
expandOrEvaluate(t, n) ==
    IF t.node[n].Depth >= t.maxDepth \/ (t.variant = 1 /\ t.node[n].Depth >= HardDepthLimit)
    THEN IF ~t.node[n].calculating
         THEN propagateScore([t EXCEPT !.node[n].calculating = TRUE,
                                       !.node[n].Score = t.boards[t.node[n].Board].Score], n)
         ELSE unlockNode(t, n)
    ELSE IF ~t.node[n].expanded
         THEN IF Len(expandMoves(t, n)) = 0
              THEN propagateScore([t EXCEPT !.node[n].expanded = TRUE], n)
              ELSE [t EXCEPT !.worker[n].pc = "expand", !.worker[n].k = 1]
         ELSE unlockNode(t, n)

\* node.mutex.Lock() of expandNode. Variant 2 reads bot.tree.maxDepth
\* without a lock; variant 1 goes on to read it under tree.mutex.
ExpandNodeLock(n) ==
    /\ tree.kind = "persistent"
    /\ tree.worker[n].pc = "lock"
    /\ tree.node[n].mutex = Unlocked
    /\ tree' = IF tree.variant = 1
               THEN [tree EXCEPT !.node[n].mutex.w = n, !.worker[n].pc = "maxDepth"]
               ELSE expandOrEvaluate([tree EXCEPT !.node[n].mutex.w = n], n)
    /\ UNCHANGED <<board, call, ret, hist, search>>

\* variant 1: the read of maxDepth under the read lock of tree.mutex, with
\* the node's lock held
ExpandNodeMaxDepth(n) ==
    /\ tree.kind = "persistent"
    /\ tree.worker[n].pc = "maxDepth"
    /\ ~tree.mutex
    /\ tree' = expandOrEvaluate(tree, n)
    /\ UNCHANGED <<board, call, ret, hist, search>>

\* one pass of the loop of expandNode over the valid moves: the child over
\* a copy of the board with the move played, scored by Evaluate, entered
\* in the Children of its parent and in the registry of the tree (under
\* tree.mutex in variant 1, without a lock in variant 2), and its
\* goroutine; after the last child the node is expanded and propagated
ExpandNodeChild(n) ==
    /\ tree.kind = "persistent"
    /\ tree.worker[n].pc = "expand"
    /\ tree.variant = 1 => ~tree.mutex
    /\ LET move == expandMoves(tree, n)[tree.worker[n].k]
           childID == childOf(n, move)
           childBoard == tree.boards[copyBoard(tree.node[n].Board)].Move[move][nodeSymbol(tree.node[n].IsMaximizing)]
           child == SearchNode(childBoard, move, tree.node[n].Depth + 1, ~tree.node[n].IsMaximizing,
                               n, tree.boards[childBoard].Score)
           added == [tree EXCEPT !.node = (childID :> child) @@ [@ EXCEPT ![n].Children = @ \cup {move}],
                                 !.nodes = @ \cup {childID},
                                 !.worker = (childID :> goExpandNode) @@ @]
       IN  tree' = IF tree.worker[n].k = Len(expandMoves(tree, n))
                   THEN propagateScore([added EXCEPT !.node[n].expanded = TRUE], n)
                   ELSE [added EXCEPT !.worker[n].k = @ + 1]
    /\ UNCHANGED <<board, call, ret, hist, search>>

\* propagateScore after current's score is written: on to current.Parent,
\* and back in expandNode without one
propagateNext(t, n) ==
    IF t.node[t.worker[n].current].Parent = NoNode
    THEN unlockNode(t, n)
    ELSE [t EXCEPT !.worker[n].current = t.node[t.worker[n].current].Parent,
                   !.worker[n].pc = "propagateScore"]

\* propagateScore, called with the node's own lock held. Variant 2 locks
\* current, reads the score of every child of current under the child's
\* read lock, writes the best as current's score and unlocks. Variant 1
\* reads the children under the read lock of current, computes the best
\* without a lock, and locks current to write it.
PropagateScore(n) ==
    /\ tree.kind = "persistent"
    /\ tree.worker[n].pc \in {"propagateScore", "children", "Score"}
    /\ LET current == tree.worker[n].current
           readable == \A m \in tree.node[current].Children :
                           tree.node[childOf(current, m)].mutex.w = NoNode
       IN  CASE tree.worker[n].pc = "propagateScore" /\ tree.variant = 2 ->
                  /\ tree.node[current].mutex = Unlocked
                  /\ tree' = [tree EXCEPT !.node[current].mutex.w = n, !.worker[n].pc = "children"]
             [] tree.worker[n].pc = "propagateScore" /\ tree.variant = 1 ->
                  /\ tree.node[current].mutex.w = NoNode
                  /\ tree' = [tree EXCEPT !.node[current].mutex.r = @ \cup {n}, !.worker[n].pc = "children"]
             [] tree.worker[n].pc = "children" /\ tree.variant = 2 ->
                  /\ readable
                  /\ tree' = propagateNext([tree EXCEPT !.node[current].Score = bestChildScore(tree, current),
                                                        !.node[current].mutex.w = NoNode], n)
             [] tree.worker[n].pc = "children" /\ tree.variant = 1 ->
                  /\ readable
                  /\ tree' = [tree EXCEPT !.node[current].mutex.r = @ \ {n},
                                          !.worker[n].best = bestChildScore(tree, current),
                                          !.worker[n].pc = "Score"]
             [] OTHER ->
                  /\ tree.node[current].mutex = Unlocked
                  /\ tree' = propagateNext([tree EXCEPT !.node[current].Score = tree.worker[n].best], n)
    /\ UNCHANGED <<board, call, ret, hist, search>>

NextPersistent ==
    \/ PersistentMakeMove
    \/ PersistentCleanup
    \/ PersistentGetBestMove
    \/ PersistentRangeChildren
    \/ PersistentOpponentMove
    \/ PersistentClose
    \/ PersistentMoveRoot
    \/ PersistentKillBranch
    \/ PersistentUpdateDepths
    \/ BackgroundExpander
    \/ \E n \in DOMAIN tree.worker : ExpandNodeStart(n)
    \/ \E n \in DOMAIN tree.worker : ExpandNodeSelect(n)
    \/ \E n \in DOMAIN tree.worker : ExpandNodeLock(n)
    \/ \E n \in DOMAIN tree.worker : ExpandNodeMaxDepth(n)
    \/ \E n \in DOMAIN tree.worker : ExpandNodeChild(n)
    \/ \E n \in DOMAIN tree.worker : PropagateScore(n)

SpecPersistent == InitPersistent /\ [][NextPersistent]_vars

\* C20: when MakeMove is called while the bot has a root whose board
\* equals the caller's board, the tree is kept: the call does not cancel
\* the tree's context; the call cancels it, to tear the tree down and
\* initialise a new root, only when the root's board differs from the
\* caller's board.
rootMatches ==
    /\ tree.node[tree.rootNode].Board.Grid = board.Grid
    /\ tree.node[tree.rootNode].Board.CurrentHeights = board.CurrentHeights

RootKeptWhenMatching ==
    [][(tree.caller.op = "" /\ tree'.caller.op = "MakeMove" /\ tree.rootNode # NoNode)
          => (tree'.cancelled <=> ~rootMatches)]_vars

-----------------------------------------------------------------------------
(* The persistent driver under fair scheduling                             *)

\* the main goroutine: the game loop and the calls it is in
CallerStep ==
    \/ PersistentMakeMove
    \/ PersistentCleanup
    \/ PersistentGetBestMove
    \/ PersistentRangeChildren
    \/ PersistentOpponentMove
    \/ PersistentClose
    \/ PersistentMoveRoot
    \/ PersistentKillBranch
    \/ PersistentUpdateDepths

\* the goroutines of the nodes
ExpandNodeStep ==
    \E n \in DOMAIN tree.worker :
        \/ ExpandNodeStart(n)
        \/ ExpandNodeSelect(n)
        \/ ExpandNodeLock(n)
        \/ ExpandNodeMaxDepth(n)
        \/ ExpandNodeChild(n)
        \/ PropagateScore(n)

\* a goroutine that can run does run: the main goroutine, the goroutines
\* of the nodes, and the deepener on its ticks
FairPersistent ==
    /\ WF_vars(CallerStep)
    /\ WF_vars(ExpandNodeStep)
    /\ WF_vars(BackgroundExpander)

SpecPersistentFair == SpecPersistent /\ FairPersistent

\* C21: Close eventually returns, and when it has returned every goroutine
\* of a node has exited, the bot has no root and the registry is empty.
CloseReturnsClean ==
    /\ (tree.caller.op = "Close") ~> (tree.caller.pc = "closed")
    /\ [](tree.caller.pc = "closed"
            => (/\ DOMAIN tree.worker = {}
                /\ tree.rootNode = NoNode
                /\ tree.nodes = {}))

\* C22: every call to MakeMove and to OpponentMove eventually returns: the
\* caller is never blocked for ever on the tree's lock or on the lock of a
\* node.
CallsReturn ==
    (tree.caller.op \in {"MakeMove", "OpponentMove"}) ~> (tree.caller.op = "")

\* C23: between the calls of the game loop, a bot that holds a root holds
\* one whose board has the grid and the heights of the game's board.
RootBoardIsGameBoard ==
    (tree.caller.op = "" /\ tree.rootNode # NoNode)
        => /\ tree.node[tree.rootNode].Board.Grid = board.Grid
           /\ tree.node[tree.rootNode].Board.CurrentHeights = board.CurrentHeights

\* the bot has moved, the other player has moved, and OpponentMove has
\* returned with the grandchild of the first root as the root
RootFollowedBothMoves ==
    /\ tree.caller.op = ""
    /\ tree.rootNode # NoNode
    /\ Len(tree.rootNode[2]) >= 2

\* n is a node of the branch below k
below(k, n) ==
    /\ n[1] = k[1]
    /\ Len(n[2]) >= Len(k[2])
    /\ SubSeq(n[2], 1, Len(k[2])) = k[2]

\* C24: the size of the registry never decreases while the bot is not in
\* moveRoot or cleanup; a moveRoot that found its child returns with a
\* registry that is smaller than the one it found, by the nodes of the other
\* branches at least, and that holds no node of a killed branch.
NodeCountSteps ==
    /\ [][tree.caller.pc \in {"idle", "getBestMove", "children"}
            => Cardinality(tree'.nodes) >= Cardinality(tree.nodes)]_vars
    /\ [][(tree.caller.pc = "updateDepths" /\ tree'.caller.op = "")
            => /\ Cardinality(tree'.nodes) < Cardinality(tree.caller.nodes)
               /\ Cardinality(tree'.nodes)
                     <= Cardinality(tree.caller.nodes) - Cardinality(tree.caller.killed)
               /\ \A n \in tree'.nodes : \A k \in tree.caller.killed : ~below(k, n)]_vars

(***************************************************************************)
(* The persistent driver on a board whose columns differ in value: three   *)
(* columns in a row with lines of two, where the bot plays O and answers   *)
(* the first move of X.                                                    *)
(***************************************************************************)

WideDimensions == <<3, 1, 1, 2>>

InitPersistentWide ==
    /\ board = NewBoard(WideDimensions)
    /\ \E initialDepth \in 1..MaxInitialDepth, variant \in Variants :
           tree = [NewPersistentMinimaxBot(O, initialDepth, variant)
                       EXCEPT !.boards = boardTable(NewBoard(WideDimensions))]
    /\ call = <<>>
    /\ ret = NoCall
    /\ hist = <<>>
    /\ search = NoSearch

SpecPersistentWide == InitPersistentWide /\ [][NextPersistent]_vars

\* C25: a MakeMove that finds children at the root plays the move of one of
\* them, and no child of the root has a score that is better in the root's
\* direction than the score of the child it plays.
BestChildPlayed ==
    [][(/\ tree.caller.op = "MakeMove"
        /\ board' # board
        /\ tree.node[tree.rootNode].Children # {})
          => LET root == tree.rootNode
                 children == tree.node[root].Children
                 Score(m) == tree.node[childOf(root, m)].Score
             IN  /\ tree'.caller.move \in children
                 /\ \A m \in children :
                       IF tree.node[root].IsMaximizing
                       THEN Score(tree'.caller.move) >= Score(m)
                       ELSE Score(tree'.caller.move) <= Score(m)]_vars

-----------------------------------------------------------------------------
(* MakeMove of every driver: on the positions of a game, where the searches *)
(* return without a fork, and on the positions where concurrentMinimax,     *)
(* concurrentMinimaxDeep and concurrentAlphaBetaMinimax fork their workers  *)

InitMakeMove == InitPositions \/ InitParallel \/ InitAlphaBeta

NextMakeMove ==
    \/ search = NoSearch /\ NextPositions
    \/ search # NoSearch /\ NextParallel
    \/ search # NoSearch /\ NextAlphaBeta

SpecMakeMove == InitMakeMove /\ [][NextMakeMove]_vars

\* the depths a bot is configured with: up to one more than the depths of
\* the game positions, so that a search can be deeper than the cells left
MakeMoveDepth == MaxDepth + 1

\* move is valid on b; after is the board b.Move(move, symbol) leaves, Score
\* and PlayerWin included, and coords what it returns; the grid of after is
\* the grid of b with one piece of symbol more, on top of the column of move
onePieceAdded(b, move, symbol, after, coords) ==
    /\ move \in {GetValidMoves(b)[k] : k \in 1..Len(GetValidMoves(b))}
    /\ \E m \in {Move(b, move, symbol)} :
          /\ after = m.b
          /\ coords = m.ret
    /\ \A c \in Columns(b), z \in 0..(b.Height - 1) :
          after.Grid[c[1]][c[2]][z] =
              IF c = parseMove(move) /\ z = b.CurrentHeights[c[1]][c[2]]
              THEN symbol
              ELSE b.Grid[c[1]][c[2]][z]

\* C26: on a board with no winner and a valid move, MakeMove of every
\* driver with depth >= 1 returns a move that was valid and leaves the board
\* with exactly one piece more, of the bot's symbol, on top of the column of
\* that move, with the Score and PlayerWin that Move gives; the forked
\* searches included.
MakeMoveAddsOnePiece ==
    /\ [](search = NoSearch =>
            \A bot \in Bots, depth \in 1..MakeMoveDepth :
                ( /\ CheckWin(board) = EMPTY
                  /\ Len(GetValidMoves(board)) >= 1
                  /\ sequentialPath(bot, board, depth) )
                    => \E r \in {driverMakeMove(bot, board, sideToMove(board), depth)} :
                          onePieceAdded(board, r.move, sideToMove(board), r.b, r.coords))
    /\ [][(/\ search # NoSearch
            /\ search.pc = "return"
            /\ search'.pc = "done"
            /\ CheckWin(board) = EMPTY)
              => onePieceAdded(board, call'[2], nodeSymbol(search.isMaximizing), board', ret')]_vars

-----------------------------------------------------------------------------
(* The loop of alphaBetaMinimax, counted                                    *)

RECURSIVE alphaBetaTried(_, _, _, _, _, _, _)

\* the number of valid moves the loop of alphaBetaMinimax has searched when
\* it ends, from the k-th move on: k at the break, all of them without one
alphaBetaTried(b, depth, isMaximizing, threshold, moves, k, currentScore) ==
    IF k > Len(moves) THEN Len(moves)
    ELSE Only({
        LET better == IF isMaximizing THEN r.score > currentScore ELSE r.score < currentScore
            score == IF better THEN r.score ELSE currentScore
        IN  IF (isMaximizing /\ score >= threshold) \/ (~isMaximizing /\ score <= threshold)
            THEN k
            ELSE alphaBetaTried(UnMove(r.b, moves[k]).b, depth, isMaximizing, threshold,
                                moves, k + 1, score)
        : r \in {alphaBetaMinimax(moved, depth - 1, ~isMaximizing, currentScore)
                  : moved \in {Move(b, moves[k], nodeSymbol(isMaximizing)).b}} })

\* C27: with the threshold MakeMove passes, the loop of the root searches
\* every valid move of the board before alphaBetaMinimax returns.
RootSearchesEveryMove ==
    \A depth \in 1..MaxDepth, isMaximizing \in BOOLEAN :
        CheckWin(board) = EMPTY
            => alphaBetaTried(board, depth, isMaximizing, rootThreshold(isMaximizing),
                              GetValidMoves(board), 1, initialScore(isMaximizing))
                  = Len(GetValidMoves(board))

\* C28: alphaBetaMinimax with a threshold its node cannot reach, MAX_INT at
\* a maximising node and MIN_INT at a minimising one, returns the score of
\* naiveMinimax, on every board and at every depth.
UnreachableThresholdIsNaive ==
    \A depth \in 0..MaxDepth, isMaximizing \in BOOLEAN :
        alphaBetaMinimax(board, depth, isMaximizing, initialScore(~isMaximizing)).score
            = naiveMinimax(board, depth, isMaximizing).score

\* a search of x at depth 2 where a cutoff fires below the root: the first
\* move has given the root a score, and the loop of the node after the
\* second move breaks before the last of its valid moves
CutoffBelowRoot ==
    /\ CheckWin(board) = EMPTY
    /\ Len(GetValidMoves(board)) >= 2
    /\ \E first \in {alphaBetaMinimax(Move(board, GetValidMoves(board)[1], X).b, 1, FALSE, MIN_INT)} :
          \E second \in {Move(UnMove(first.b, GetValidMoves(board)[1]).b, GetValidMoves(board)[2], X).b} :
              /\ first.score > MIN_INT
              /\ CheckWin(second) = EMPTY
              /\ alphaBetaTried(second, 1, FALSE, first.score, GetValidMoves(second), 1, MAX_INT)
                    < Len(GetValidMoves(second))

RECURSIVE winReachable(_, _, _)

\* a board whose winner is set is in the tree naiveMinimax searches from b
\* at this depth
winReachable(b, depth, isMaximizing) ==
    \/ CheckWin(b) # EMPTY
    \/ /\ depth > 0
       /\ \E k \in 1..Len(GetValidMoves(b)) :
             winReachable(Move(copyBoard(b), GetValidMoves(b)[k], nodeSymbol(isMaximizing)).b,
                          depth - 1, ~isMaximizing)

\* C29: on a board whose winner is set minimax returns MAX_INT/2 for x and
\* MIN_INT/2 for o, as naiveMinimax does, and on every board from which the
\* search reaches a win the two return the same score.
DeltaStopsAtWin ==
    \A depth \in 0..MaxDepth, isMaximizing \in BOOLEAN :
        /\ CheckWin(board) # EMPTY
              => minimax(board, depth, isMaximizing).score = winScore(CheckWin(board))
        /\ winReachable(board, depth, isMaximizing)
              => minimax(board, depth, isMaximizing).score
                    = naiveMinimax(board, depth, isMaximizing).score

\* the thresholds a search is called with: the two of the root, and scores
\* a parent can hold
Thresholds == {MIN_INT, -Base, 0, Base, MAX_INT}

\* C30: when alphaBetaMinimax returns, through a cutoff or not, the board
\* has the Grid, CurrentHeights, Score and PlayerWin it had before the call.
AlphaBetaRestoresBoard ==
    \A depth \in 0..MaxDepth, isMaximizing \in BOOLEAN, threshold \in Thresholds :
        \E r \in {alphaBetaMinimax(board, depth, isMaximizing, threshold)} :
            /\ r.b.Grid = board.Grid
            /\ r.b.CurrentHeights = board.CurrentHeights
            /\ r.b.Score = board.Score
            /\ r.b.PlayerWin = board.PlayerWin

\* the search of x with the root's threshold has moved and unmoved on the
\* board, which keeps the LastMove of the move taken back, and has
\* returned through a cutoff
ReturnedThroughCutoff ==
    /\ CheckWin(board) = EMPTY
    /\ alphaBetaMinimax(board, 1, TRUE, MIN_INT).b.LastMove # board.LastMove
    /\ alphaBetaTried(board, 1, TRUE, MIN_INT, GetValidMoves(board), 1, MIN_INT)
          < Len(GetValidMoves(board))

-----------------------------------------------------------------------------
(* The multi-depth streamer: multiDepthAlphaBetaStream starts one search   *)
(* per depth, every one of them on the caller's board, and merges their    *)
(* results. Where a search does not fork it runs alphaBetaMinimax in place *)
(* on that board. The goroutines are not synchronised: a step is one call  *)
(* on the board, and the steps of the searches interleave freely.          *)

\* the depths the streamer is called with: both keep the searches sequential
MultiDepths == <<1, 2>>

\* the boards of the streamer and the pieces on them when it is called
MultiDimensions == { <<3, 1, 1, 2>>, <<2, 1, 2, 2>> }
MultiPieces == 1

MultiDepthStreamResult(moves, score, depth, final) ==
    [Moves |-> moves, Score |-> score, Depth |-> depth, Final |-> final]

\* a call of alphaBetaMinimax on the stack of a goroutine; ret holds what
\* the call it made has returned
alphaBetaCall(depth, isMaximizing, threshold) ==
    [ depth |-> depth, isMaximizing |-> isMaximizing, threshold |-> threshold,
      moves |-> <<>>, k |-> 0,
      currentScore |-> initialScore(isMaximizing), bestMoves |-> <<>>,
      pc |-> "CheckWin", ret |-> [score |-> 0, moves |-> <<>>] ]

\* the goroutine of one depth before it has run
depthWorker == [pc |-> "CheckWin", stack |-> <<>>, result |-> MultiDepthStreamResult(<<>>, 0, 0, FALSE)]

\* multiDepthAlphaBetaStream as its goroutines are launched
multiDepthFork(isMaximizing, depths) ==
    [ kind |-> "multidepth", isMaximizing |-> isMaximizing, depths |-> depths,
      worker |-> [i \in 1..Len(depths) |-> depthWorker],
      depthResults |-> <<>>, depthResultsClosed |-> FALSE, closer |-> "wait",
      pc |-> "range",
      bestScore |-> initialScore(isMaximizing), bestMoves |-> <<>>, bestDepth |-> 0,
      activeDepths |-> {depths[i] : i \in 1..Len(depths)},
      resultCh |-> <<>> ]

InitMultiDepth ==
    /\ \E dimensions \in MultiDimensions :
        \E b \in positionsFrom(NewBoard(dimensions), MultiPieces) :
            /\ CheckWin(b) = EMPTY
            /\ Len(GetValidMoves(b)) > 0
            /\ board = b
            /\ search = multiDepthFork(sideToMove(b) = X, MultiDepths)
    /\ call = <<>>
    /\ ret = NoCall
    /\ hist = <<>>
    /\ tree = NoTree

\* a call of alphaBetaMinimax returns: to the call that made it, or to
\* concurrentAlphaBetaMinimaxStreamWithSequence, whose one result is final
alphaBetaReturn(w, score, moves) ==
    IF Len(w.stack) = 1
    THEN [w EXCEPT !.stack = <<>>, !.pc = "send",
                   !.result = MultiDepthStreamResult(moves, score, 0, TRUE)]
    ELSE [w EXCEPT !.stack = <<[w.stack[2] EXCEPT !.ret = [score |-> score, moves |-> moves]]>>
                              \o SubSeq(w.stack, 3, Len(w.stack))]

\* concurrentAlphaBetaMinimaxStreamWithSequence before its search: CheckWin,
\* then the depth and the valid moves; it goes on to alphaBetaMinimax on the
\* same board with two valid moves or fewer, or depth two or less
MultiDepthStream(i) ==
    /\ search.kind = "multidepth"
    /\ search.worker[i].stack = <<>>
    /\ LET w == search.worker[i]
           depth == search.depths[i]
       IN  CASE w.pc = "CheckWin" ->
                  search' = [search EXCEPT !.worker[i] =
                      IF CheckWin(board) # EMPTY
                      THEN [w EXCEPT !.pc = "send",
                                     !.result = MultiDepthStreamResult(<<>>, winScore(CheckWin(board)), 0, TRUE)]
                      ELSE [w EXCEPT !.pc = "GetValidMoves"]]
             [] w.pc = "GetValidMoves" ->
                  /\ depth = 0 \/ Len(GetValidMoves(board)) <= SequentialMoves \/ depth <= SequentialDepth
                  /\ search' = [search EXCEPT !.worker[i] =
                      IF depth = 0 \/ Len(GetValidMoves(board)) = 0
                      THEN [w EXCEPT !.pc = "send",
                                     !.result = MultiDepthStreamResult(<<>>, board.Score, 0, TRUE)]
                      ELSE [w EXCEPT !.pc = "search",
                                     !.stack = <<alphaBetaCall(depth, search.isMaximizing,
                                                               rootThreshold(search.isMaximizing))>>]]
             [] OTHER -> FALSE
    /\ UNCHANGED <<board, call, ret, hist, tree>>

\* one call on the board by alphaBetaMinimax, in the goroutine of a depth:
\* CheckWin, the read of Score at depth 0, GetValidMoves, Move before the
\* recursion, and UnMove after it with the rest of the loop's body
AlphaBetaInPlace(i) ==
    /\ search.kind = "multidepth"
    /\ search.worker[i].stack # <<>>
    /\ LET w == search.worker[i]
           f == Head(w.stack)
           rest == Tail(w.stack)
       IN  CASE f.pc = "CheckWin" ->
                  /\ board' = board
                  /\ search' = [search EXCEPT !.worker[i] =
                        IF CheckWin(board) # EMPTY
                        THEN alphaBetaReturn(w, winScore(CheckWin(board)), <<>>)
                        ELSE [w EXCEPT !.stack[1].pc = IF f.depth = 0 THEN "Score" ELSE "GetValidMoves"]]
             [] f.pc = "Score" ->
                  /\ board' = board
                  /\ search' = [search EXCEPT !.worker[i] = alphaBetaReturn(w, board.Score, <<>>)]
             [] f.pc = "GetValidMoves" ->
                  /\ board' = board
                  /\ search' = [search EXCEPT !.worker[i] =
                        IF Len(GetValidMoves(board)) = 0
                        THEN alphaBetaReturn(w, f.currentScore, f.bestMoves)
                        ELSE [w EXCEPT !.stack[1].moves = GetValidMoves(board),
                                       !.stack[1].k = 1,
                                       !.stack[1].pc = "Move"]]
             [] f.pc = "Move" ->
                  /\ board' = Move(board, f.moves[f.k], nodeSymbol(f.isMaximizing)).b
                  /\ search' = [search EXCEPT !.worker[i].stack =
                        <<alphaBetaCall(f.depth - 1, ~f.isMaximizing, f.currentScore),
                          [f EXCEPT !.pc = "UnMove"]>> \o rest]
             [] OTHER ->
                  /\ board' = UnMove(board, f.moves[f.k]).b
                  /\ LET better == IF f.isMaximizing THEN f.ret.score > f.currentScore
                                                     ELSE f.ret.score < f.currentScore
                         score == IF better THEN f.ret.score ELSE f.currentScore
                         best == IF better THEN <<f.moves[f.k]>> \o f.ret.moves ELSE f.bestMoves
                         cutoff == \/ f.isMaximizing /\ score >= f.threshold
                                   \/ ~f.isMaximizing /\ score <= f.threshold
                     IN  search' = [search EXCEPT !.worker[i] =
                           IF cutoff \/ f.k = Len(f.moves)
                           THEN alphaBetaReturn(w, score, best)
                           ELSE [w EXCEPT !.stack[1].k = f.k + 1,
                                          !.stack[1].currentScore = score,
                                          !.stack[1].bestMoves = best,
                                          !.stack[1].pc = "Move"]]
    /\ UNCHANGED <<call, ret, hist, tree>>

\* the goroutine of a depth forwards the result of its search with the
\* depth, and is done
MultiDepthForward(i) ==
    /\ search.kind = "multidepth"
    /\ search.worker[i].pc = "send"
    /\ search' = [search EXCEPT
                    !.worker[i].pc = "done",
                    !.depthResults = Append(@, [search.worker[i].result EXCEPT
                                                  !.Depth = search.depths[i]])]
    /\ UNCHANGED <<board, call, ret, hist, tree>>

\* the closer: wg.Wait() and close(depthResults)
MultiDepthCloser ==
    /\ search.kind = "multidepth"
    /\ search.closer = "wait"
    /\ \A i \in 1..Len(search.depths) : search.worker[i].pc = "done"
    /\ search' = [search EXCEPT !.closer = "done", !.depthResultsClosed = TRUE]
    /\ UNCHANGED <<board, call, ret, hist, tree>>

\* the test of the merge: a deeper result, or a better score at the depth
\* of the best
multiDepthImproves(s, result) ==
    \/ result.Depth > s.bestDepth
    \/ /\ result.Depth = s.bestDepth
       /\ IF s.isMaximizing THEN result.Score > s.bestScore ELSE result.Score < s.bestScore

\* the merge takes the next result: it replaces the best and streams it
\* when the test says so; after the final result of the last active depth
\* it streams the final tuple and returns. It also returns when
\* depthResults is closed and empty.
MultiDepthRange ==
    /\ search.kind = "multidepth"
    /\ search.pc = "range"
    /\ \/ /\ search.depthResults # <<>>
          /\ LET result == Head(search.depthResults)
                 improved == multiDepthImproves(search, result)
                 taken == IF improved
                          THEN [search EXCEPT
                                  !.depthResults = Tail(@),
                                  !.bestScore = result.Score,
                                  !.bestMoves = result.Moves,
                                  !.bestDepth = result.Depth,
                                  !.resultCh = Append(@, MultiDepthStreamResult(
                                                  result.Moves, result.Score, result.Depth, FALSE))]
                          ELSE [search EXCEPT !.depthResults = Tail(@)]
                 active == IF result.Final THEN taken.activeDepths \ {result.Depth}
                                           ELSE taken.activeDepths
             IN  search' = IF result.Final /\ active = {}
                           THEN [taken EXCEPT
                                   !.activeDepths = active,
                                   !.pc = "done",
                                   !.resultCh = Append(@, MultiDepthStreamResult(
                                                   taken.bestMoves, taken.bestScore, taken.bestDepth, TRUE))]
                           ELSE [taken EXCEPT !.activeDepths = active]
       \/ /\ search.depthResults = <<>>
          /\ search.depthResultsClosed
          /\ search' = [search EXCEPT !.pc = "done"]
    /\ UNCHANGED <<board, call, ret, hist, tree>>

NextMultiDepth ==
    \/ \E i \in 1..Len(search.depths) : MultiDepthStream(i)
    \/ \E i \in 1..Len(search.depths) : AlphaBetaInPlace(i)
    \/ \E i \in 1..Len(search.depths) : MultiDepthForward(i)
    \/ MultiDepthCloser
    \/ MultiDepthRange

SpecMultiDepth == InitMultiDepth /\ [][NextMultiDepth]_vars

\* the goroutine of a depth has a piece on the board: a call of
\* alphaBetaMinimax on its stack is between its Move and its UnMove
hasMoved(i) == \E n \in 1..Len(search.worker[i].stack) : search.worker[i].stack[n].pc = "UnMove"

\* C31: a board is used by one goroutine at a time: no goroutine of the
\* multi-depth streamer reads or changes the board while another one has
\* moved on it and not yet moved back.
BoardUsedByOne ==
    [][\A i \in 1..Len(search.depths), j \in 1..Len(search.depths) :
          ( /\ i # j
            /\ search'.worker[j] # search.worker[j]
            /\ search.worker[j].pc \in {"CheckWin", "GetValidMoves", "search"} )
              => ~hasMoved(i)]_vars

\* the merge takes a result in this step
mergeTakes ==
    /\ search.kind = "multidepth"
    /\ search.pc = "range"
    /\ search.depthResults # <<>>
    /\ search'.depthResults = Tail(search.depthResults)

\* C32: the merge is by score: a result replaces the best when its score is
\* strictly better for the root, or equal and from a greater depth, and a
\* result with a strictly worse score does not replace the best.
MergeIsByScore ==
    [][mergeTakes =>
        LET result == Head(search.depthResults)
            better == IF search.isMaximizing THEN result.Score > search.bestScore
                                             ELSE result.Score < search.bestScore
            worse == IF search.isMaximizing THEN result.Score < search.bestScore
                                            ELSE result.Score > search.bestScore
        IN  /\ (better \/ (result.Score = search.bestScore /\ result.Depth > search.bestDepth))
                  => /\ search'.bestScore = result.Score
                     /\ search'.bestDepth = result.Depth
                     /\ search'.bestMoves = result.Moves
            /\ worse
                  => /\ search'.bestScore = search.bestScore
                     /\ search'.bestDepth = search.bestDepth
                     /\ search'.bestMoves = search.bestMoves]_vars

-----------------------------------------------------------------------------
(* concurrentAlphaBetaMinimax two levels deep: MakeMove calls it with      *)
(* parentScore nil, and a worker of that call calls it again on its copy   *)
(* of the board with the shared score of its caller. Where the second call *)
(* forks it has a context of its own, made from context.Background(), its  *)
(* own workers, its own closer and its own loop over results.              *)

\* the depth of MakeMove at which the calls of its workers still fork
NestedDepth == SequentialDepth + 2

NestedDimensions == { <<3, 1, 2, 2>> }
NestedPieces == 1

\* the worker of a search whose call of concurrentAlphaBetaMinimax has not
\* forked
noFork(b, isMaximizing) == [alphaBetaFork(b, 0, isMaximizing, 0) EXCEPT !.pc = "none"]

InitAlphaBetaNested ==
    /\ \E dimensions \in NestedDimensions :
        \E b \in positionsFrom(NewBoard(dimensions), NestedPieces) :
            /\ alphaBetaForks(b, NestedDepth)
            /\ board = b
            /\ search = alphaBetaFork(b, NestedDepth, sideToMove(b) = X,
                                      rootThreshold(sideToMove(b) = X))
                            @@ [child |-> [i \in 1..Len(GetValidMoves(b)) |->
                                              noFork(b, sideToMove(b) = X)]]
    /\ call = <<>>
    /\ ret = NoCall
    /\ hist = <<>>
    /\ tree = NoTree

\* a worker copies the board, plays its move on the copy, reads the shared
\* score as the threshold of its child and calls concurrentAlphaBetaMinimax,
\* which forks: the call has a context of its own
NestedFork(i) ==
    /\ search.kind = "alphabeta"
    /\ search.worker[i] = "copy"
    /\ \E testBoard \in {testBoardOf(board, search.validMoves[i], search.isMaximizing)} :
        /\ alphaBetaForks(testBoard, search.depth - 1)
        /\ search' = [search EXCEPT
                        !.worker[i] = "call",
                        !.child[i] = alphaBetaFork(testBoard, search.depth - 1,
                                                   ~search.isMaximizing, search.currentScore)]
    /\ UNCHANGED <<board, call, ret, hist, tree>>

\* the test of a worker on the shared score of the caller of its search
prunedByParent(n, parentScore) ==
    \/ n.isMaximizing /\ parentScore <= n.threshold
    \/ ~n.isMaximizing /\ parentScore >= n.threshold

\* a worker of the forked call: its first select on the context of its own
\* search; the copy of the board, the test on the shared score of the
\* caller and the search of its child, which does not fork; its second
\* select and the send of its result
NestedChildWorker(i, j) ==
    /\ search.kind = "alphabeta"
    /\ search.worker[i] = "call"
    /\ LET n == search.child[i]
       IN  CASE n.worker[j] = "start" ->
                  search' = [search EXCEPT !.child[i].worker[j] =
                                IF n.cancelled THEN "done" ELSE "copy"]
             [] n.worker[j] = "copy" ->
                  IF prunedByParent(n, search.currentScore)
                  THEN search' = [search EXCEPT !.child[i].worker[j] = "done"]
                  ELSE \E testBoard \in {testBoardOf(n.board, n.validMoves[j], n.isMaximizing)} :
                         /\ ~alphaBetaForks(testBoard, n.depth - 1)
                         /\ \E r \in {concurrentAlphaBetaMinimaxSequential(
                                          testBoard, n.depth - 1, ~n.isMaximizing, n.currentScore)} :
                               search' = [search EXCEPT !.child[i].worker[j] = "check",
                                                        !.child[i].score[j] = r.score]
             [] n.worker[j] = "check" ->
                  \/ /\ n.cancelled
                     /\ search' = [search EXCEPT !.child[i].worker[j] = "done"]
                  \/ /\ ~n.cancelled
                     /\ Len(n.results) < Len(n.validMoves)
                     /\ search' = [search EXCEPT
                                     !.child[i].worker[j] = "done",
                                     !.child[i].results =
                                         Append(@, MoveResult(n.validMoves[j], n.score[j]))]
             [] OTHER -> FALSE
    /\ UNCHANGED <<board, call, ret, hist, tree>>

\* the closer of the forked call
NestedChildCloser(i) ==
    /\ search.kind = "alphabeta"
    /\ search.worker[i] = "call"
    /\ search.child[i].closer = "wait"
    /\ \A j \in 1..Len(search.child[i].validMoves) : search.child[i].worker[j] = "done"
    /\ search' = [search EXCEPT !.child[i].closer = "done", !.child[i].resultsClosed = TRUE]
    /\ UNCHANGED <<board, call, ret, hist, tree>>

\* the forked call in the goroutine of the worker that made it: the loop
\* over results, the drain, and the return of the best score to the
\* worker, which goes on to its second select
NestedChildRange(i) ==
    /\ search.kind = "alphabeta"
    /\ search.worker[i] = "call"
    /\ LET n == search.child[i]
       IN  CASE n.pc = "range" ->
                  \/ /\ n.results # <<>>
                     /\ search' = [search EXCEPT !.child[i] =
                            takeMoveResult([n EXCEPT !.results = Tail(@),
                                               !.arrived = Append(@, Head(n.results).Move)],
                                           Head(n.results))]
                  \/ /\ n.results = <<>>
                     /\ n.resultsClosed
                     /\ search' = [search EXCEPT !.child[i].pc = "drain"]
             [] n.pc = "drain" ->
                  \/ /\ n.results # <<>>
                     /\ search' = [search EXCEPT !.child[i].results = Tail(@)]
                  \/ /\ n.results = <<>>
                     /\ n.resultsClosed
                     /\ search' = [search EXCEPT !.child[i].pc = "return",
                                                 !.child[i].cancelled = TRUE,
                                                 !.worker[i] = "check",
                                                 !.score[i] = n.bestScore]
             [] OTHER -> FALSE
    /\ UNCHANGED <<board, call, ret, hist, tree>>

NestedForkStep == \E i \in 1..Len(search.validMoves) : NestedFork(i)
NestedChildWorkerStep ==
    \E i \in 1..Len(search.validMoves) :
        \E j \in 1..Len(search.child[i].validMoves) : NestedChildWorker(i, j)
NestedChildCloserStep == \E i \in 1..Len(search.validMoves) : NestedChildCloser(i)
NestedChildRangeStep == \E i \in 1..Len(search.validMoves) : NestedChildRange(i)

NextAlphaBetaNested ==
    \/ NextAlphaBeta
    \/ NestedForkStep
    \/ NestedChildWorkerStep
    \/ NestedChildCloserStep
    \/ NestedChildRangeStep

SpecAlphaBetaNested == InitAlphaBetaNested /\ [][NextAlphaBetaNested]_vars

\* C33: when a node cancels its scope, every worker below it stops at its
\* next poll: after the cancel() of the search of MakeMove no worker of a
\* search called by one of its workers passes its select on ctx.Done().
CancelStopsSubtree ==
    [][(search.kind = "alphabeta" /\ search.cancelled)
         => \A i \in 1..Len(search.validMoves) :
              \A j \in 1..Len(search.child[i].validMoves) :
                 ~ /\ search.worker[i] = "call"
                   /\ search.child[i].worker[j] = "start"
                   /\ search'.child[i].worker[j] = "copy"]_vars

\* C34: a parallel node with legal moves does not return its initial score
\* with no move: the forked call of a worker returns a score some move of
\* its board has reported, and the move.
ForkedCallReturnsAMove ==
    search.kind = "alphabeta"
        => \A i \in 1..Len(search.validMoves) :
              search.child[i].pc = "return"
                  => /\ search.child[i].bestMoves # <<>>
                     /\ search.child[i].bestScore # initialScore(search.child[i].isMaximizing)

-----------------------------------------------------------------------------
(* concurrentAlphaBetaMinimaxStream two levels deep: the child searches of *)
(* the workers fork in their turn and stream their improvements before     *)
(* their final tuple. resultCh of a child has room for all its tuples, and *)
(* a child whose context stays live sends them whatever its reader does.   *)
(* The search is the one MakeMove starts, under the background context.    *)

\* the boards of the two-level stream
NestedStreamDimensions == { <<3, 1, 3, 3>> }

\* the boards MakeMove is called on: x and o have played in one column, so
\* that the child search of one worker does not fork and the others do
NestedStreamPositions ==
    UNION { { Move(Move(NewBoard(dimensions), GetValidMoves(NewBoard(dimensions))[k], X).b,
                   GetValidMoves(NewBoard(dimensions))[k], O).b
              : k \in 1..Len(GetValidMoves(NewBoard(dimensions))) }
            : dimensions \in NestedStreamDimensions }

RECURSIVE streamFold(_, _, _, _, _, _)
\* the tuples a forked search sends when the final results of its children
\* arrive in the order of the sequence: every strict improvement, and the
\* final tuple after the last result or after the improvement that stops
\* the children
streamFold(results, k, bestScore, bestMove, isMaximizing, sent) ==
    IF k > Len(results) THEN Append(sent, StreamResult(bestMove, bestScore, TRUE))
    ELSE IF (isMaximizing /\ results[k].Score > bestScore)
            \/ (~isMaximizing /\ results[k].Score < bestScore)
    THEN IF \/ isMaximizing /\ results[k].Score >= goDiv(MAX_INT, 3)
            \/ ~isMaximizing /\ results[k].Score <= goDiv(MIN_INT, 3)
         THEN sent \o << StreamResult(results[k].Move, results[k].Score, FALSE),
                         StreamResult(results[k].Move, results[k].Score, TRUE) >>
         ELSE streamFold(results, k + 1, results[k].Score, results[k].Move, isMaximizing,
                         Append(sent, StreamResult(results[k].Move, results[k].Score, FALSE)))
    ELSE streamFold(results, k + 1, bestScore, bestMove, isMaximizing, sent)

\* the final tuples of the children of a forked search on testBoard, which
\* do not fork, by valid move
finalResults(testBoard, depth, isMaximizing) ==
    [k \in 1..Len(GetValidMoves(testBoard)) |->
        StreamResult(GetValidMoves(testBoard)[k],
                     streamSequential(testBoardOf(testBoard, GetValidMoves(testBoard)[k], isMaximizing),
                                      depth - 1, ~isMaximizing).Score,
                     TRUE)]

\* the streams a child search on testBoard can send: the one tuple of a
\* search that does not fork, or the tuples of a forked search for every
\* order in which the results of its children arrive
childStreams(testBoard, depth, isMaximizing) ==
    IF alphaBetaForks(testBoard, depth)
    THEN { streamFold([k \in 1..Len(GetValidMoves(testBoard)) |-> r[p[k]]], 1,
                      initialScore(isMaximizing), <<>>, isMaximizing, <<>>)
           : r \in {finalResults(testBoard, depth, isMaximizing)},
             p \in arrivalOrders(Len(GetValidMoves(testBoard))) }
    ELSE {childStream(testBoard, depth, isMaximizing)}

\* childFinal keeps the score of the final tuple of each child search;
\* childStreams tabulates the streams on the boards the workers can meet
InitStreamNested ==
    /\ \E b \in NestedStreamPositions :
            /\ alphaBetaForks(b, NestedDepth)
            /\ board = b
            /\ search = streamFork(b, NestedDepth, sideToMove(b) = X, "background")
                            @@ [childFinal |-> [i \in 1..Len(GetValidMoves(b)) |-> 0],
                                childStreams |->
                                    [tb \in {testBoardOf(bd, GetValidMoves(b)[i], sideToMove(b) = X)
                                             : bd \in boardsCopied(b, sideToMove(b) = X),
                                               i \in 1..Len(GetValidMoves(b))} |->
                                        childStreams(tb, NestedDepth - 1, sideToMove(b) # X)]]
    /\ call = <<>>
    /\ ret = NoCall
    /\ hist = <<>>
    /\ tree = NoTree

\* a child search runs and sends its tuples
NestedChildRun(i) ==
    /\ search.kind = "stream"
    /\ search.child[i] = "run"
    /\ \E stream \in search.childStreams[search.testBoard[i]] :
        search' = [search EXCEPT !.child[i] = "done",
                                 !.childCh[i] = stream,
                                 !.childFinal[i] = stream[Len(stream)].Score]
    /\ UNCHANGED <<board, call, ret, hist, tree>>

NestedChildStep == \E i \in 1..Len(search.validMoves) : NestedChildRun(i)

NextStreamNested ==
    \/ WorkerStep
    \/ NestedChildStep
    \/ Closer
    \/ RootRange
    \/ RootEmit
    \/ RootFinal
    \/ ReaderRange
    \/ ReaderMove

SpecStreamNested == InitStreamNested /\ [][NextStreamNested]_vars

\* C35: when the cutoff does not fire, the score of the final tuple of a
\* parallel node is the best of the scores of the final tuples of its
\* children: a score a child has improved past does not decide it.
FinalIsBestOfFinals ==
    \A t \in 1..Len(search.resultCh) :
        (search.resultCh[t].Final /\ ~prunes(search) /\ search.parentCtx = "background")
            => search.resultCh[t].Score =
                  bestOf({search.childFinal[i] : i \in 1..Len(search.validMoves)},
                         search.isMaximizing)

-----------------------------------------------------------------------------
\* C36: every score naiveMinimax and alphaBetaMinimax return lies between
\* MIN_INT/2 and MAX_INT/2: on every board of the bots, at every depth and
\* for both kinds of node, a full board without a winner included.
ScoresWithinHalves ==
    \A depth \in 0..MaxDepth, isMaximizing \in BOOLEAN :
        /\ naiveMinimax(board, depth, isMaximizing).score >= goDiv(MIN_INT, 2)
        /\ naiveMinimax(board, depth, isMaximizing).score <= goDiv(MAX_INT, 2)
        /\ alphaBetaMinimax(board, depth, isMaximizing, rootThreshold(isMaximizing)).score
              >= goDiv(MIN_INT, 2)
        /\ alphaBetaMinimax(board, depth, isMaximizing, rootThreshold(isMaximizing)).score
              <= goDiv(MAX_INT, 2)

-----------------------------------------------------------------------------
\* the goroutine of n is at a request for tree.mutex: the read of maxDepth
\* in variant 1, or the entry of a child in the registry in variant 1
requestsTreeLock(n) ==
    \/ tree.worker[n].pc = "maxDepth"
    \/ tree.variant = 1 /\ tree.worker[n].pc = "expand"

\* C37: the locks are taken in the order tree, then node: no goroutine is
\* at a request for tree.mutex while it holds the lock of a node, and the
\* caller is not at a request for tree.mutex while it holds tree.mutex.
TreeLockBeforeNodeLock ==
    tree.kind = "persistent"
        => /\ \A n \in DOMAIN tree.worker :
                requestsTreeLock(n) => \A m \in DOMAIN tree.node : tree.node[m].mutex.w # n
           /\ ~ /\ tree.caller.pc = "killBranch"
                 /\ Head(tree.caller.stack).phase = "delete"
                 /\ tree.mutex

\* the nodes whose lock the goroutine of n holds, for writing or reading
locksHeld(n) ==
    {m \in DOMAIN tree.node : tree.node[m].mutex.w = n \/ n \in tree.node[m].mutex.r}

\* C38: while it propagates a score a worker does not hold the lock of its
\* own node, so it takes the lock of its parent and the read locks of the
\* parent's children, its own among them, with no lock of its own held,
\* and it never holds two node locks at once.
PropagatesWithoutOwnLock ==
    tree.kind = "persistent"
        => \A n \in DOMAIN tree.worker :
              tree.worker[n].pc \in {"propagateScore", "children", "Score"}
                  => /\ n \notin locksHeld(n)
                     /\ Cardinality(locksHeld(n)) <= 1

\* the invariant of a node of the tree: expanded, it has one child per
\* valid move of its board; its children are one deeper than it is and of
\* the other kind
nodeInvariant(t, n) ==
    /\ t.node[n].expanded
          => t.node[n].Children =
                {GetValidMoves(t.node[n].Board)[k] : k \in 1..Len(GetValidMoves(t.node[n].Board))}
    /\ \A m \in t.node[n].Children :
          /\ t.node[childOf(n, m)].Depth = t.node[n].Depth + 1
          /\ t.node[childOf(n, m)].IsMaximizing = ~t.node[n].IsMaximizing

\* updateDepths waits for the lock of a node that a goroutine holds
updateDepthsWaits ==
    /\ tree.caller.pc = "updateDepths"
    /\ tree.node[Head(tree.caller.stack).node].mutex # Unlocked

\* C39: in every state in which no call of the bot is in progress or
\* moveRoot waits for a lock after it has re-rooted, the root is at depth 0
\* and the invariant holds of every node of its tree.
TreeNodeInvariant ==
    (/\ tree.kind = "persistent"
     /\ tree.rootNode # NoNode
     /\ tree.caller.pc = "idle" \/ updateDepthsWaits)
        => /\ tree.node[tree.rootNode].Depth = 0
           /\ \A n \in subtree(tree, tree.rootNode) : nodeInvariant(tree, n)

\* C40: whenever a node has its children, its Score is the best of the
\* scores its children have at that moment, in the direction of the node.
ScoreIsBestOfChildren ==
    tree.kind = "persistent"
        => \A n \in DOMAIN tree.node :
              (tree.node[n].expanded /\ tree.node[n].Children # {})
                  => tree.node[n].Score = bestChildScore(tree, n)

====
